---- MODULE Spec2Model ----
(***************************************************************************)
(* Model of kudu/util/debug-util.cc: remote stack-trace collection.        *)
(*                                                                         *)
(* A tracer thread (StackTraceCollector) allocates a SignalData block,     *)
(* queues a signal carrying its address to a target thread and waits on    *)
(* the block's CompletionFlag; the signal handler running on the target    *)
(* CASes the block from <tid> to kDumpStarted, collects its stack into the *)
(* caller's StackTrace and signals the flag.  RevokeSigData() exchanges    *)
(* kNotInUse back into the block and decides who owns it.                  *)
(*                                                                         *)
(* Every collector c is driven by OS thread c; a signal handler running on *)
(* thread t preempts whatever thread t does in normal context.             *)
(***************************************************************************)
EXTENDS Integers, Sequences, FiniteSets, TLC

\* ------------------------------------------------------------- bounds
NumThreads == 2
MaxBlocks == 2
MaxClock == 1
MaxChain == 3

\* ---------------------------------------------------------- constants
kNotInUse == 0
kDumpStarted == -1
SIGUSR2 == 12
kMaxDepth == 16
f_ptr == 1000

Tids == 1..NumThreads
\* The StackTraceCollector instances; collector c is driven by thread c.
Collectors == {1, 2}
\* A thread id no thread of this process has.
NoSuchTid == NumThreads + 1
Blocks == 1..MaxBlocks
nullptr == 0
\* The stack trace signal's default number and one alternative.
Signums == {SIGUSR2 - 2, SIGUSR2}
\* MonoTime::Max(): later than every instant of the clock.
MonoTimeMax == MaxClock + 1
\* MonoDelta::FromSeconds(1) in clock ticks.
OneSecond == 1

Min(a, b) == IF a < b THEN a ELSE b

\* The slots of frames_ that are looked at (the array has kMaxDepth of them),
\* and the largest buffer size StringifyToHex is given.
MaxFrames == 2
MaxSize == 40
\* Calls of SnapshotAllStacks on one StackTraceSnapshot.
MaxCalls == 2
\* The width of one address in hexadecimal digits.
kHexEntryLength == 16

VARIABLES
  g_stack_trace_signum, \* the selected signal number
  state,                \* InitSignalHandlerUnlocked's static InitState
  disp,                 \* the process's signal dispositions, per signal number
  setRet,               \* the Status the last SetStackTraceSignal returned
  refused,              \* the signal number last refused installation, or 0
  found,                \* what the previous signal carried when the number last
                        \* changed with the handler installed, or "none"
  sticky,               \* whether the last call of InitSignalHandlerUnlocked
                        \* returned false with the selected signal free
  g_prime_libunwind_once, \* GoogleOnceType: "UNINIT", "RUNNING", "DONE"
  primedIn,             \* who ran PrimeLibunwind: "none", "TriggerAsync", "Collect", "signal"
  blk,                  \* the SignalData blocks ever allocated
  nalloc,               \* how many blocks were allocated
  pending,              \* per thread: blocks whose signal is queued to it
  masked,               \* per thread: whether it blocks the stack trace signal
  hpc,                  \* per thread: position of its running signal handler
  hblk,                 \* per thread: the block its running handler received
  spc,                  \* per thread: position in a self StackTrace::Collect
  pc,                   \* per collector: position of its thread in the API
  via,                  \* per collector: who called RevokeSigData
  drv,                  \* per collector: driven freely or by GetThreadStack
  tid_,                 \* StackTraceCollector::tid_
  sig_data_,            \* StackTraceCollector::sig_data_
  arg,                  \* TriggerAsync's tid argument while it runs
  deadline,             \* AwaitCollection's deadline argument
  status,               \* the Status the collector's last call returned
  ret,                  \* the Status GetThreadStack returned
  stk,                  \* per collector: the caller's StackTrace
  stk0,                 \* the caller's StackTrace as it was at construction
  waitRes,              \* what the timed WaitUntil of AwaitCollection returned
  now,                  \* MonoTime::Now()
  aborted,              \* "no", or the CHECK that aborted the process
  snap,                 \* the StackTraceSnapshot and the position of SnapshotAllStacks
  call                  \* a call of a StackTrace method: its operands and its result

vars == <<g_stack_trace_signum, state, disp, setRet, refused, found, sticky,
          g_prime_libunwind_once, primedIn,
          blk, nalloc, pending, masked, hpc, hblk, spc, pc, via, drv, tid_,
          sig_data_, arg, deadline, status, ret, stk, stk0, waitRes, now, aborted,
          snap, call>>

sigVars == <<g_stack_trace_signum, state, disp, setRet, refused, found, sticky>>
onceVars == <<g_prime_libunwind_once, primedIn>>
thrVars == <<pending, masked, hpc, hblk, spc>>
colVars == <<pc, via, drv, tid_, sig_data_, arg, deadline, status, ret, waitRes>>
blkVars == <<blk, nalloc>>
stkVars == <<stk, stk0>>
objVars == <<snap, call>>

\* A SignalData that was never allocated.
\* stack, queued and ready are SignalData's fields; the rest is bookkeeping:
\* tid the thread the block was meant for, freed/sent whether it was deleted and
\* whether its signal was queued, cas how the handler's CAS ended, xchg what
\* RevokeSigData's exchange found, wrote whether the handler's Collect ran,
\* casFirst whether the handler's CAS preceded the exchange.
NoBlock == [stack |-> 0, tid |-> 0, queued |-> kNotInUse, ready |-> 0,
            freed |-> FALSE, sent |-> FALSE, cas |-> "none", xchg |-> "none",
            wrote |-> FALSE, casFirst |-> FALSE]

\* The instruction pointers libunwind yields on thread t, innermost first:
\* the first is Collect's own frame.
IP(t, i) == 100 * t + i
Chain(t, n) == [i \in 1..n |-> IP(t, i)]

\* A StackTrace object: the array frames_, of which frames_[0..num_frames_)
\* is defined and the rest holds whatever the memory held.
FrameValues == {IP(1, 1), IP(1, 2)}
StackTraces == [frames_ : [1..MaxFrames -> FrameValues], num_frames_ : 0..MaxFrames]

\* frames_[0..num_frames_) of a StackTrace.
Defined(s) == SubSeq(s.frames_, 1, s.num_frames_)

\* A StackTraceSnapshot on which SnapshotAllStacks has not run: no entries,
\* no collectors.  infos_ and num_failed_ are its fields; thread is the
\* thread inside SnapshotAllStacks, pc its position there, i the loop index,
\* tids what ListThreads returned, deadline the local of line 774, st the
\* Status returned.  Bookkeeping: calls counts the calls made, dbg is what
\* IsBeingDebugged told the last one, first the number of SignalData
\* allocated before the last call that got past the early returns.
NoSnapshot == [pc |-> "idle", thread |-> 1, i |-> 0, tids |-> << >>,
               infos_ |-> << >>, num_failed_ |-> 0, st |-> "none",
               deadline |-> 0, calls |-> 0, dbg |-> FALSE, first |-> 0]

\* No StackTrace method has been called.
NoCall == [op |-> "none"]

\* A default-constructed StackTrace, and one holding an earlier trace.
EmptyStack == << >>
OldStack == <<7>>


\* ------------------------------------------------------ pure functions

\* Mutant: the handler is installed whatever disposition the signal has.
InitSignalHandlerUnlocked_Overwrite(signum, g, st, d) ==
  LET st2 == IF signum # g \/ st = "UNINITIALIZED" THEN "INITIALIZED" ELSE st
      install == signum # g \/ st = "UNINITIALIZED"
  IN [signum |-> signum, state |-> st2,
      disp |-> IF install THEN [d EXCEPT ![signum] = "HandleStackTraceSignal"] ELSE d,
      install |-> install, refuse |-> FALSE, found |-> "none", sticky |-> FALSE,
      ok |-> st2 = "INITIALIZED"]

\* Mutant: the handler stays on the signal that is given up.
InitSignalHandlerUnlocked_OldKept(signum, g, st, d) ==
  LET st1 == IF signum # g THEN "UNINITIALIZED" ELSE st
      inUse == d[signum] \notin {"SIG_DFL", "SIG_IGN"}
      st2 == IF st1 = "UNINITIALIZED"
             THEN (IF inUse THEN "INIT_ERROR" ELSE "INITIALIZED")
             ELSE st1
      install == st1 = "UNINITIALIZED" /\ ~inUse
  IN [signum |-> signum, state |-> st2,
      disp |-> IF install THEN [d EXCEPT ![signum] = "HandleStackTraceSignal"] ELSE d,
      install |-> install, refuse |-> st1 = "UNINITIALIZED" /\ inUse,
      found |-> IF signum # g /\ st = "INITIALIZED" THEN d[g] ELSE "none",
      sticky |-> st2 # "INITIALIZED" /\ ~inUse,
      ok |-> st2 = "INITIALIZED"]

\* Mutant: a call that finds INIT_ERROR looks at the signal again.
InitSignalHandlerUnlocked_Retries(signum, g, st, d) ==
  LET d1 == IF signum # g /\ st = "INITIALIZED" /\ d[g] = "HandleStackTraceSignal"
            THEN [d EXCEPT ![g] = "SIG_DFL"] ELSE d
      st1 == IF signum # g \/ st = "INIT_ERROR" THEN "UNINITIALIZED" ELSE st
      inUse == d1[signum] \notin {"SIG_DFL", "SIG_IGN"}
      st2 == IF st1 = "UNINITIALIZED"
             THEN (IF inUse THEN "INIT_ERROR" ELSE "INITIALIZED")
             ELSE st1
      install == st1 = "UNINITIALIZED" /\ ~inUse
      d2 == IF install THEN [d1 EXCEPT ![signum] = "HandleStackTraceSignal"] ELSE d1
  IN [signum |-> signum, state |-> st2, disp |-> d2,
      install |-> install, refuse |-> st1 = "UNINITIALIZED" /\ inUse,
      found |-> IF signum # g /\ st = "INITIALIZED" THEN d[g] ELSE "none",
      sticky |-> st2 # "INITIALIZED" /\ ~inUse,
      ok |-> st2 = "INITIALIZED"]

\* InitSignalHandlerUnlocked(signum) on the globals (g, st, d): the new
\* globals and the value returned.  "install" tells whether sigaction
\* installed HandleStackTraceSignal in this call, "refuse" whether the call
\* found the signal in use and went to INIT_ERROR, "found" what sigaction
\* reported for the signal that is given up (lines 299-305), "sticky"
\* whether the call returned false though the signal was free.
InitSignalHandlerUnlocked(signum, g, st, d) ==
  LET d1 == IF signum # g /\ st = "INITIALIZED" /\ d[g] = "HandleStackTraceSignal"
            THEN [d EXCEPT ![g] = "SIG_DFL"] ELSE d
      st1 == IF signum # g THEN "UNINITIALIZED" ELSE st
      inUse == d1[signum] \notin {"SIG_DFL", "SIG_IGN"}
      st2 == IF st1 = "UNINITIALIZED"
             THEN (IF inUse THEN "INIT_ERROR" ELSE "INITIALIZED")
             ELSE st1
      install == st1 = "UNINITIALIZED" /\ ~inUse
      d2 == IF install THEN [d1 EXCEPT ![signum] = "HandleStackTraceSignal"] ELSE d1
  IN [signum |-> signum, state |-> st2, disp |-> d2,
      install |-> install, refuse |-> st1 = "UNINITIALIZED" /\ inUse,
      found |-> IF signum # g /\ st = "INITIALIZED" THEN d[g] ELSE "none",
      sticky |-> st2 # "INITIALIZED" /\ ~inUse,
      ok |-> st2 = "INITIALIZED"]


\* Mutant: Collect's own frame is not skipped.
Collect_OwnFrameKept(skip_frames, safe, chain) ==
  IF ~safe
  THEN <<f_ptr + 1>>
  ELSE LET avail == Len(chain) - skip_frames
           n == IF avail < 0 THEN 0 ELSE Min(avail, kMaxDepth)
       IN [i \in 1..n |-> chain[skip_frames + i]]

\* Mutant: Collect unwinds without asking whether it is safe.
Collect_Unchecked(skip_frames, safe, chain) ==
  LET skip == skip_frames + 1
      avail == Len(chain) - skip
      n == IF avail < 0 THEN 0 ELSE Min(avail, kMaxDepth)
  IN [i \in 1..n |-> chain[skip + i]]

\* StackTrace::Collect(skip_frames): the defined prefix frames_[0..num_frames_)
\* it leaves, given the unwind-safety oracle and the chain the unwinder walks.
Collect(skip_frames, safe, chain) ==
  IF ~safe
  THEN <<f_ptr + 1>>
  ELSE LET skip == skip_frames + 1
           avail == Len(chain) - skip
           n == IF avail < 0 THEN 0 ELSE Min(avail, kMaxDepth)
       IN [i \in 1..n |-> chain[skip + i]]

\* ---------------------------------------------------------------- Init

InitCommon ==
  /\ g_stack_trace_signum = SIGUSR2
  /\ state = "UNINITIALIZED"
  /\ setRet = "none"
  /\ refused = 0
  /\ found = "none"
  /\ sticky = FALSE
  /\ g_prime_libunwind_once = "UNINIT"
  /\ primedIn = "none"
  /\ blk = [b \in Blocks |-> NoBlock]
  /\ nalloc = 0
  /\ pending = [t \in Tids |-> {}]
  /\ masked = [t \in Tids |-> FALSE]
  /\ hpc = [t \in Tids |-> "none"]
  /\ hblk = [t \in Tids |-> nullptr]
  /\ spc = [t \in Tids |-> "none"]
  /\ via = [c \in Collectors |-> "none"]
  /\ drv = [c \in Collectors |-> "free"]
  /\ tid_ = [c \in Collectors |-> 0]
  /\ sig_data_ = [c \in Collectors |-> nullptr]
  /\ arg = [c \in Collectors |-> 0]
  /\ deadline = [c \in Collectors |-> 0]
  /\ status = [c \in Collectors |-> "none"]
  /\ ret = [c \in Collectors |-> "none"]
  /\ waitRes = [c \in Collectors |-> "none"]
  /\ now = 0
  /\ aborted = "no"
  /\ snap = NoSnapshot

\* One tracer and its targets: collector 1 is constructed and unused, its
\* caller's StackTrace is empty or holds an earlier trace; the stack trace
\* signal is free or taken by a foreign handler.
Init ==
  /\ InitCommon
  /\ call = NoCall
  /\ pc = [c \in Collectors |-> IF c = 1 THEN "ready" ELSE "absent"]
  /\ \E s1 \in {EmptyStack, OldStack} :
       stk0 = [c \in Collectors |-> IF c = 1 THEN s1 ELSE EmptyStack]
  /\ stk = stk0
  /\ \E h \in {"SIG_DFL", "foreign"} :
       disp = [s \in Signums |-> IF s = SIGUSR2 THEN h ELSE "SIG_DFL"]


\* std::lexicographical_compare(r1, r2) with operator<.
RECURSIVE LexicographicalCompare(_, _)
LexicographicalCompare(r1, r2) ==
  IF r1 = << >> \/ r2 = << >>
  THEN r1 = << >> /\ r2 # << >>
  ELSE IF Head(r1) < Head(r2) THEN TRUE
  ELSE IF Head(r2) < Head(r1) THEN FALSE
  ELSE LexicographicalCompare(Tail(r1), Tail(r2))

\* StackTrace::LessThan, lines 729-732: both ranges end at this->num_frames_.
LessThan(a, s) ==
  LexicographicalCompare(SubSeq(a.frames_, 1, a.num_frames_),
                         SubSeq(s.frames_, 1, a.num_frames_))

\* StackTrace::Equals: the same num_frames_ and the same defined frames.
Equals(a, s) == a.num_frames_ = s.num_frames_ /\ Defined(a) = Defined(s)

\* StackTrace::Collect on the object s: the frames collected overwrite the
\* first slots, the other slots keep what they held.
CollectInto(s, skip_frames, safe, chain) ==
  LET d == Collect(skip_frames, safe, chain)
  IN [frames_ |-> [i \in DOMAIN s.frames_ \cup DOMAIN d |->
                     IF i <= Len(d) THEN d[i] ELSE s.frames_[i]],
      num_frames_ |-> Len(d)]

\* FastHex64ToBuffer: the kHexEntryLength hexadecimal digits of addr.
HexChars == <<"0", "1", "2", "3", "4", "5", "6", "7",
              "8", "9", "a", "b", "c", "d", "e", "f">>
RECURSIVE FastHex64ToBuffer(_, _)
FastHex64ToBuffer(addr, digits) ==
  IF digits = 0 THEN << >>
  ELSE Append(FastHex64ToBuffer(addr \div 16, digits - 1), HexChars[(addr % 16) + 1])

\* StringifyToHex, lines 636-651: the loop from frame i on, dst being
\* buf + Len(written).
RECURSIVE StringifyLoop(_, _, _, _, _)
StringifyLoop(s, i, written, limit, flags) ==
  IF i < s.num_frames_ /\ Len(written) < limit
  THEN LET sep == IF i # 0 THEN <<" ">> ELSE << >>
           prefix == IF "HEX_0X_PREFIX" \in flags THEN <<"0", "x">> ELSE << >>
           raw == s.frames_[i + 1]
           addr == IF raw > 0 /\ "NO_FIX_CALLER_ADDRESSES" \notin flags
                   THEN raw - 1 ELSE raw
       IN StringifyLoop(s, i + 1,
                        written \o sep \o prefix \o FastHex64ToBuffer(addr, kHexEntryLength),
                        limit, flags)
  ELSE written

\* StackTrace::StringifyToHex(buf, size, flags), lines 629-653: the bytes
\* written, buf[0] first.
StringifyToHex(s, size, flags) ==
  Append(StringifyLoop(s, 0, << >>, size - kHexEntryLength - 2, flags), "NUL")

\* A ThreadInfo, an entry of StackTraceSnapshot::infos_.
ThreadInfo(id, st, trace) == [tid |-> id, status |-> st, stack |-> trace]

\* The lambda of lines 786-788.
InfoLess(a, b) == LessThan(a.stack, b.stack)

\* std::sort's insertion of val into the sorted range `sorted`: to the front
\* if it compares less than the first element, else before the trailing
\* elements it compares less than.
RECURSIVE LinearInsert(_, _)
LinearInsert(sorted, val) ==
  IF sorted # << >> /\ InfoLess(val, sorted[Len(sorted)])
  THEN Append(LinearInsert(SubSeq(sorted, 1, Len(sorted) - 1), val), sorted[Len(sorted)])
  ELSE Append(sorted, val)
Insert(sorted, val) ==
  IF sorted # << >> /\ InfoLess(val, sorted[1])
  THEN <<val>> \o sorted
  ELSE LinearInsert(sorted, val)

\* std::sort(infos_.begin(), infos_.end(), ...), lines 786-788, as the
\* library sorts a range this short: by insertion.
RECURSIVE Sort(_)
Sort(infos) ==
  IF infos = << >> THEN << >>
  ELSE Insert(Sort(SubSeq(infos, 1, Len(infos) - 1)), infos[Len(infos)])

\* VisitGroups, lines 796-798: where the run that starts at group_start ends.
RECURSIVE GroupEnd(_, _, _)
GroupEnd(infos, group_start, group_end) ==
  IF group_end <= Len(infos) /\ Equals(infos[group_end].stack, infos[group_start].stack)
  THEN GroupEnd(infos, group_start, group_end + 1)
  ELSE group_end

\* VisitGroups, lines 792-802: the runs handed to the visitor, in order,
\* from group_start on.
RECURSIVE VisitGroups(_, _)
VisitGroups(infos, group_start) ==
  IF group_start > Len(infos) THEN << >>
  ELSE LET group_end == GroupEnd(infos, group_start, group_start + 1)
       IN <<SubSeq(infos, group_start, group_end - 1)>>
            \o VisitGroups(infos, group_end)

\* ------------------------------------------------------ tracer: helpers

\* The thread that drives collector c: the thread inside SnapshotAllStacks
\* for the snapshot's collectors_, thread c otherwise.
Owner(c) == IF drv[c] = "snapshot" THEN snap.thread ELSE c

\* Mutant: the tracer goes on while a signal handler runs on its thread.
Running_BesideHandler(c) == aborted = "no" /\ spc[Owner(c)] = "none"

\* The thread of collector c runs in normal context: the process lives, no
\* signal handler is running on the thread and it is not inside a self-Collect.
Running(c) == aborted = "no" /\ hpc[Owner(c)] = "none" /\ spc[Owner(c)] = "none"

\* Collectors inside TriggerAsync that have not allocated their block yet.
Triggering == {c \in Collectors : pc[c] \in {"t_once", "t_prime", "t_send"}}

\* CHECK failure: the process aborts.
Abort(why) == aborted' = why

\* ------------------------------------------------- tracer: TriggerAsync

\* TriggerAsync, lines 420-428: the one-shot CHECK, then the handler is
\* (re)installed for the selected signal under g_signal_handler_lock.  (The
\* caller says what becomes of drv and ret.)
TriggerAsync_Init(c, tid) ==
  /\ Running(c) /\ pc[c] = "ready"
  /\ IF ~(sig_data_[c] = nullptr /\ tid_[c] = 0)
     THEN /\ Abort("TriggerAsync() must not be called more than once per instance")
          /\ UNCHANGED <<sigVars, objVars, onceVars, blkVars, thrVars, pc, via, tid_, sig_data_,
                         arg, deadline, status, waitRes, stkVars, now>>
     ELSE LET r == InitSignalHandlerUnlocked(g_stack_trace_signum,
                                             g_stack_trace_signum, state, disp)
          IN /\ nalloc + Cardinality(Triggering) < MaxBlocks
             /\ g_stack_trace_signum' = r.signum
             /\ state' = r.state
             /\ disp' = r.disp
             /\ refused' = IF r.refuse THEN r.signum ELSE refused
             /\ found' = IF r.found # "none" THEN r.found ELSE found
             /\ sticky' = r.sticky
             /\ UNCHANGED setRet
             /\ IF r.ok
                THEN /\ pc' = [pc EXCEPT ![c] = "t_once"]
                     /\ arg' = [arg EXCEPT ![c] = tid]
                     /\ UNCHANGED status
                ELSE /\ status' = [status EXCEPT ![c] = "NotSupported"]
                     /\ UNCHANGED <<pc, arg>>
             /\ UNCHANGED <<objVars, onceVars, blkVars, thrVars, via, tid_, sig_data_,
                            deadline, waitRes, stkVars, now, aborted>>

\* Mutant: TriggerAsync leaves the priming to the first Collect.
TriggerAsync_Once_NoPrime(c) ==
  /\ Running(c) /\ pc[c] = "t_once"
  /\ pc' = [pc EXCEPT ![c] = "t_send"]
  /\ UNCHANGED <<sigVars, objVars, onceVars, blkVars, thrVars, via, drv, tid_, sig_data_,
                 arg, deadline, status, ret, waitRes, stkVars, now, aborted>>

\* TriggerAsync, line 437: GoogleOnceInit(&g_prime_libunwind_once, ...).  The
\* caller that finds the once untouched runs PrimeLibunwind; one that finds it
\* running waits for it.
TriggerAsync_Once(c) ==
  /\ Running(c) /\ pc[c] = "t_once"
  /\ g_prime_libunwind_once # "RUNNING"
  /\ IF g_prime_libunwind_once = "DONE"
     THEN /\ pc' = [pc EXCEPT ![c] = "t_send"]
          /\ UNCHANGED g_prime_libunwind_once
     ELSE /\ pc' = [pc EXCEPT ![c] = "t_prime"]
          /\ g_prime_libunwind_once' = "RUNNING"
  /\ UNCHANGED <<sigVars, objVars, primedIn, blkVars, thrVars, via, drv, tid_, sig_data_,
                 arg, deadline, status, ret, waitRes, stkVars, now, aborted>>

\* PrimeLibunwind (lines 347-355) returns and the once is marked done.
TriggerAsync_Prime(c) ==
  /\ Running(c) /\ pc[c] = "t_prime"
  /\ g_prime_libunwind_once' = "DONE"
  /\ primedIn' = "TriggerAsync"
  /\ pc' = [pc EXCEPT ![c] = "t_send"]
  /\ UNCHANGED <<sigVars, objVars, blkVars, thrVars, via, drv, tid_, sig_data_,
                 arg, deadline, status, ret, waitRes, stkVars, now, aborted>>

\* Mutant: every block points at one shared StackTrace.
NewSignalData_SharedStack(c, tid) ==
  [NoBlock EXCEPT !.stack = 1, !.tid = tid, !.queued = tid]

\* new SignalData() with queued_to_tid = tid and stack = the caller's
\* StackTrace (lines 439-443).
NewSignalData(c, tid) == [NoBlock EXCEPT !.stack = c, !.tid = tid, !.queued = tid]

\* Mutant: the block is handed to the collector before the signal is sent, so
\* a failed delivery leaves it there, alive.
Send_Failed_KeepsBlock(c, b, tid) ==
  /\ blk' = [blk EXCEPT ![b] = NewSignalData(c, tid)]
  /\ sig_data_' = [sig_data_ EXCEPT ![c] = b]
  /\ tid_' = [tid_ EXCEPT ![c] = tid]
  /\ status' = [status EXCEPT ![c] = "NotFound"]
  /\ UNCHANGED pending

\* TriggerAsync, lines 459-461: rt_tgsigqueueinfo failed.  The unique_ptr
\* deletes the block on return; the collector's fields were not touched.
Send_Failed(c, b, tid) ==
  /\ blk' = [blk EXCEPT ![b] = [NewSignalData(c, tid) EXCEPT !.freed = TRUE]]
  /\ status' = [status EXCEPT ![c] = "NotFound"]
  /\ UNCHANGED <<pending, sig_data_, tid_>>

\* TriggerAsync, lines 459-469: the signal is queued to thread tid and the
\* collector takes the block.
Send_Delivered(c, b, tid) ==
  /\ blk' = [blk EXCEPT ![b] = [NewSignalData(c, tid) EXCEPT !.sent = TRUE]]
  /\ pending' = [pending EXCEPT ![tid] = @ \cup {b}]
  /\ sig_data_' = [sig_data_ EXCEPT ![c] = b]
  /\ tid_' = [tid_ EXCEPT ![c] = tid]
  /\ status' = [status EXCEPT ![c] = "OK"]

\* TriggerAsync, lines 439-469: allocate the SignalData, queue the signal with
\* rt_tgsigqueueinfo.  Delivery fails for a tid that is no thread of this
\* process.
TriggerAsync_Send(c) ==
  /\ Running(c) /\ pc[c] = "t_send"
  /\ LET b == nalloc + 1
     IN /\ nalloc' = b
        /\ IF arg[c] \in Tids
           THEN Send_Delivered(c, b, arg[c])
           ELSE Send_Failed(c, b, arg[c])
  /\ pc' = [pc EXCEPT ![c] = "ready"]
  /\ arg' = [arg EXCEPT ![c] = 0]
  /\ UNCHANGED <<sigVars, objVars, onceVars, masked, hpc, hblk, spc, via, drv,
                 deadline, ret, waitRes, stkVars, now, aborted>>


\* ---------------------------------------------- tracer: AwaitCollection

\* AwaitCollection, lines 473-481: the precondition CHECK, then the timed
\* WaitUntil(deadline) starts.  (The caller says what becomes of drv and ret.)
AwaitCollection_Begin(c, dl) ==
  /\ Running(c) /\ pc[c] = "ready"
  /\ IF sig_data_[c] = nullptr
     THEN /\ Abort("Must successfully call TriggerAsync() first")
          /\ UNCHANGED <<pc, via, deadline, waitRes>>
     ELSE /\ pc' = [pc EXCEPT ![c] = "a_check"]
          /\ via' = [via EXCEPT ![c] = "await"]
          /\ deadline' = [deadline EXCEPT ![c] = dl]
          /\ waitRes' = [waitRes EXCEPT ![c] = "none"]
          /\ UNCHANGED aborted
  /\ UNCHANGED <<sigVars, objVars, onceVars, blkVars, thrVars, tid_, sig_data_, arg,
                 status, stkVars, now>>

\* CompletionFlag::WaitUntil runs twice per collector: timed, from
\* AwaitCollection ("a_"), and with MonoTime::Max(), from RevokeSigData ("r_").
InTimedWait(c) == pc[c] \in {"a_check", "a_loop", "a_futex", "a_sleep"}
InFinalWait(c) == pc[c] \in {"r_check", "r_loop", "r_futex", "r_sleep"}
WaitPc(c, step) == (IF InTimedWait(c) THEN "a_" ELSE "r_") \o step
WaitDeadline(c) == IF InTimedWait(c) THEN deadline[c] ELSE MonoTimeMax

\* WaitUntil returns `res` to its caller: AwaitCollection ignores the value
\* (line 481), RevokeSigData CHECKs it (line 412).
WaitReturn(c, res) ==
  IF InTimedWait(c)
  THEN /\ pc' = [pc EXCEPT ![c] = "revoke"]
       /\ waitRes' = [waitRes EXCEPT ![c] = IF res THEN "completed" ELSE "timeout"]
       /\ UNCHANGED aborted
  ELSE /\ IF res
          THEN pc' = [pc EXCEPT ![c] = "r_delete"] /\ UNCHANGED aborted
          ELSE Abort("CHECK(result_ready.WaitUntil)") /\ UNCHANGED pc
       /\ UNCHANGED waitRes

\* Mutant: the flag reads as set whatever the word holds.
FlagComplete_AlwaysSet(b) == blk[b].ready \in {0, 1}

\* The CompletionFlag's complete_ word, read as a boolean.
FlagComplete(b) == blk[b].ready # 0

\* WaitUntil, lines 175 and 192: `if (complete_) return true`.
Wait_Check(c) ==
  /\ Running(c) /\ (InTimedWait(c) \/ InFinalWait(c)) /\ pc[c] = WaitPc(c, "check")
  /\ IF FlagComplete(sig_data_[c])
     THEN WaitReturn(c, TRUE)
     ELSE pc' = [pc EXCEPT ![c] = WaitPc(c, "loop")] /\ UNCHANGED <<waitRes, aborted>>
  /\ UNCHANGED <<sigVars, objVars, onceVars, blkVars, thrVars, via, drv, tid_, sig_data_, arg,
                 deadline, status, ret, stkVars, now>>

\* WaitUntil, lines 177-178 and 195-197: read the clock; past the deadline the
\* loop ends and the flag's current value is returned.
Wait_Loop(c) ==
  /\ Running(c) /\ (InTimedWait(c) \/ InFinalWait(c)) /\ pc[c] = WaitPc(c, "loop")
  /\ IF now < WaitDeadline(c)
     THEN pc' = [pc EXCEPT ![c] = WaitPc(c, "futex")] /\ UNCHANGED <<waitRes, aborted>>
     ELSE WaitReturn(c, FlagComplete(sig_data_[c]))
  /\ UNCHANGED <<sigVars, objVars, onceVars, blkVars, thrVars, via, drv, tid_, sig_data_, arg,
                 deadline, status, ret, stkVars, now>>

\* Mutant: the wait sleeps without comparing the word with the expected 0.
FutexWait_NoCompare(c) == pc' = [pc EXCEPT ![c] = WaitPc(c, "sleep")]

\* sys_futex(FUTEX_WAIT, 0): the kernel compares the word with 0 and puts the
\* thread to sleep in one atomic step; a word that is no longer 0 returns at once.
FutexWait(c) ==
  IF ~FlagComplete(sig_data_[c])
  THEN pc' = [pc EXCEPT ![c] = WaitPc(c, "sleep")]
  ELSE pc' = [pc EXCEPT ![c] = WaitPc(c, "check")]

\* WaitUntil, lines 180-188.
Wait_Futex(c) ==
  /\ Running(c) /\ (InTimedWait(c) \/ InFinalWait(c)) /\ pc[c] = WaitPc(c, "futex")
  /\ FutexWait(c)
  /\ UNCHANGED <<sigVars, objVars, onceVars, blkVars, thrVars, via, drv, tid_, sig_data_, arg,
                 deadline, status, ret, waitRes, stkVars, now, aborted>>

\* The futex wait's timeout expires: the deadline has come.
Wait_Timeout(c) ==
  /\ Running(c) /\ (InTimedWait(c) \/ InFinalWait(c)) /\ pc[c] = WaitPc(c, "sleep")
  /\ now >= WaitDeadline(c)
  /\ pc' = [pc EXCEPT ![c] = WaitPc(c, "check")]
  /\ UNCHANGED <<sigVars, objVars, onceVars, blkVars, thrVars, via, drv, tid_, sig_data_, arg,
                 deadline, status, ret, waitRes, stkVars, now, aborted>>

\* The futex wait returns early for no reason of the protocol's (EINTR).
Wait_Spurious(c) ==
  /\ Running(c) /\ (InTimedWait(c) \/ InFinalWait(c)) /\ pc[c] = WaitPc(c, "sleep")
  /\ pc' = [pc EXCEPT ![c] = WaitPc(c, "check")]
  /\ UNCHANGED <<sigVars, objVars, onceVars, blkVars, thrVars, via, drv, tid_, sig_data_, arg,
                 deadline, status, ret, waitRes, stkVars, now, aborted>>

\* ------------------------------------------------ tracer: RevokeSigData

\* Mutant: AwaitCollection reports what its timed wait returned.
RevokeReturn_ByWait(c, completed) ==
  IF via[c] = "await"
  THEN /\ status' = [status EXCEPT ![c] = IF waitRes[c] = "completed"
                                           THEN "OK" ELSE "TimedOut"]
       /\ pc' = [pc EXCEPT ![c] = "ready"]
  ELSE /\ pc' = [pc EXCEPT ![c] = "destroyed"]
       /\ UNCHANGED status

\* RevokeSigData returns `completed` to its caller: AwaitCollection turns it
\* into a Status (lines 488-493); the destructor drops it (line 376).
RevokeReturn(c, completed) ==
  IF via[c] = "await"
  THEN /\ status' = [status EXCEPT ![c] = IF completed THEN "OK" ELSE "TimedOut"]
       /\ pc' = [pc EXCEPT ![c] = "ready"]
  ELSE /\ pc' = [pc EXCEPT ![c] = "destroyed"]
       /\ UNCHANGED status

\* Mutant: the exchange is always taken to have found the target's tid.
Observed_Lost(old, tid) == "tid"

\* What the exchange found, as RevokeSigData tells the cases apart.
Observed(old, tid) ==
  IF old = tid THEN "tid" ELSE IF old = kDumpStarted THEN "started" ELSE "other"

\* Mutant: the revoked block is deleted like a completed one.
Leak_Deletes(block) == [block EXCEPT !.freed = TRUE]

\* RevokeSigData, lines 401-404: the block whose signal may still arrive is
\* leaked, not deleted.
Leak(block) == block

\* RevokeSigData, lines 385-411: exchange kNotInUse in.  A block still queued
\* to the target is leaked; one the handler took is waited for.
Revoke_Exchange(c) ==
  /\ Running(c) /\ pc[c] = "revoke"
  /\ LET b == sig_data_[c]
         old_val == blk[b].queued
         seen == Observed(old_val, tid_[c])
         exchanged == [blk[b] EXCEPT !.queued = kNotInUse, !.xchg = seen,
                                     !.casFirst = (blk[b].cas = "won")]
     IN /\ blk' = [blk EXCEPT ![b] = IF seen = "tid" THEN Leak(exchanged)
                                                      ELSE exchanged]
        /\ CASE seen = "tid" ->
                  /\ sig_data_' = [sig_data_ EXCEPT ![c] = nullptr]
                  /\ RevokeReturn(c, FALSE)
                  /\ UNCHANGED aborted
             [] seen = "started" ->
                  /\ pc' = [pc EXCEPT ![c] = "r_check"]
                  /\ UNCHANGED <<sig_data_, status, aborted>>
             [] OTHER ->
                  /\ Abort("CHECK_EQ(old_val, SignalData::kDumpStarted)")
                  /\ UNCHANGED <<sig_data_, status, pc>>
  /\ UNCHANGED <<sigVars, objVars, onceVars, nalloc, thrVars, via, drv, tid_, arg,
                 deadline, ret, waitRes, stkVars, now>>

\* RevokeSigData, lines 413-415: the handler is done with the block; free it.
Revoke_Delete(c) ==
  /\ Running(c) /\ pc[c] = "r_delete"
  /\ blk' = [blk EXCEPT ![sig_data_[c]].freed = TRUE]
  /\ sig_data_' = [sig_data_ EXCEPT ![c] = nullptr]
  /\ RevokeReturn(c, TRUE)
  /\ UNCHANGED <<sigVars, objVars, onceVars, nalloc, thrVars, via, drv, tid_, arg,
                 deadline, ret, waitRes, stkVars, now, aborted>>

\* ~StackTraceCollector, lines 374-378.  (The caller says what becomes of drv and ret.)
Destructor(c) ==
  /\ Running(c) /\ pc[c] = "ready"
  /\ IF sig_data_[c] # nullptr
     THEN /\ pc' = [pc EXCEPT ![c] = "revoke"]
          /\ via' = [via EXCEPT ![c] = "dtor"]
     ELSE /\ pc' = [pc EXCEPT ![c] = "destroyed"]
          /\ UNCHANGED via
  /\ UNCHANGED <<sigVars, objVars, onceVars, blkVars, thrVars, tid_, sig_data_, arg,
                 deadline, status, waitRes, stkVars, now, aborted>>


\* ------------------------------------------------- target: the handler

\* The kernel delivers a queued stack trace signal to thread t, which does
\* not block it and runs no handler for it already: HandleStackTraceSignal
\* starts (lines 261-275) with the block's address in si_value.
Deliver(t, b) ==
  /\ aborted = "no"
  /\ b \in pending[t] /\ ~masked[t] /\ hpc[t] = "none"
  /\ disp[g_stack_trace_signum] = "HandleStackTraceSignal"
  /\ pending' = [pending EXCEPT ![t] = @ \ {b}]
  /\ hpc' = [hpc EXCEPT ![t] = "cas"]
  /\ hblk' = [hblk EXCEPT ![t] = b]
  /\ UNCHANGED <<sigVars, objVars, onceVars, blkVars, masked, spc, colVars, stkVars, now, aborted>>

\* Mutant: the handler also takes a block that is marked not in use.
CasSucceeds_OrNotInUse(q, my_tid) == q = my_tid \/ q = kNotInUse

\* Mutant: the handler stores kDumpStarted without comparing.
CasSucceeds_Unconditional(q, my_tid) == q \in Int /\ my_tid \in Tids

\* compare_exchange_strong(my_tid, kDumpStarted) on a word holding q.
CasSucceeds(q, my_tid) == q = my_tid

\* HandleStackTraceSignal, lines 280-282.
Handler_CAS(t) ==
  /\ aborted = "no" /\ hpc[t] = "cas"
  /\ LET b == hblk[t]
     IN IF CasSucceeds(blk[b].queued, t)
        THEN /\ blk' = [blk EXCEPT ![b].queued = kDumpStarted, ![b].cas = "won"]
             /\ hpc' = [hpc EXCEPT ![t] = "collect"]
             /\ UNCHANGED hblk
        ELSE /\ blk' = [blk EXCEPT ![b].cas = "lost"]
             /\ hpc' = [hpc EXCEPT ![t] = "none"]
             /\ hblk' = [hblk EXCEPT ![t] = nullptr]
  /\ UNCHANGED <<sigVars, objVars, onceVars, nalloc, pending, masked, spc, colVars, stkVars,
                 now, aborted>>

\* HandleStackTraceSignal, line 285: sig_data->stack->Collect(1), lines
\* 577-615.  When unwinding is safe, Collect passes GoogleOnceInit first: a
\* once that is running blocks the handler, an untouched one makes the handler
\* run PrimeLibunwind itself.
Handler_Collect(t, safe, n) ==
  /\ aborted = "no" /\ hpc[t] = "collect"
  /\ safe => g_prime_libunwind_once # "RUNNING"
  /\ IF safe /\ g_prime_libunwind_once = "UNINIT"
     THEN g_prime_libunwind_once' = "DONE" /\ primedIn' = "signal"
     ELSE UNCHANGED onceVars
  /\ stk' = [stk EXCEPT ![blk[hblk[t]].stack] = Collect(1, safe, Chain(t, n))]
  /\ blk' = [blk EXCEPT ![hblk[t]].wrote = TRUE]
  /\ hpc' = [hpc EXCEPT ![t] = "store"]
  /\ UNCHANGED <<sigVars, objVars, nalloc, pending, masked, hblk, spc, colVars, stk0, now, aborted>>

\* CompletionFlag::Signal, line 161: complete_ = true.
Handler_Store(t) ==
  /\ aborted = "no" /\ hpc[t] = "store"
  /\ blk' = [blk EXCEPT ![hblk[t]].ready = 1]
  /\ hpc' = [hpc EXCEPT ![t] = "wake"]
  /\ UNCHANGED <<sigVars, objVars, onceVars, nalloc, pending, masked, hblk, spc, colVars,
                 stkVars, now, aborted>>

\* CompletionFlag::Signal, lines 163-168: FUTEX_WAKE of every thread asleep on
\* the flag's address; the kernel does not read the word.  The handler returns.
Handler_Wake(t) ==
  /\ aborted = "no" /\ hpc[t] = "wake"
  /\ pc' = [c \in Collectors |->
              IF sig_data_[c] = hblk[t] /\ pc[c] = "a_sleep" THEN "a_check"
              ELSE IF sig_data_[c] = hblk[t] /\ pc[c] = "r_sleep" THEN "r_check"
              ELSE pc[c]]
  /\ hpc' = [hpc EXCEPT ![t] = "none"]
  /\ hblk' = [hblk EXCEPT ![t] = nullptr]
  /\ UNCHANGED <<sigVars, objVars, onceVars, blkVars, pending, masked, spc, via, drv, tid_,
                 sig_data_, arg, deadline, status, ret, waitRes, stkVars, now, aborted>>

\* --------------------------------------------- threads and environment

\* Thread t is between calls of the library.
Idle(t) ==
  /\ aborted = "no" /\ hpc[t] = "none" /\ spc[t] = "none"
  /\ t \in Collectors => pc[t] \in {"absent", "ready", "destroyed"}

\* Thread t blocks or unblocks the stack trace signal (pthread_sigmask).
SigMask(t) ==
  /\ Idle(t)
  /\ masked' = [masked EXCEPT ![t] = ~@]
  /\ UNCHANGED <<sigVars, objVars, onceVars, blkVars, pending, hpc, hblk, spc, colVars,
                 stkVars, now, aborted>>

\* Thread t collects its own stack (e.g. HexStackTraceToString, lines 560-564)
\* for the first time in the process: Collect's GoogleOnceInit (line 591)
\* starts PrimeLibunwind on it.
SelfCollect_Begin(t) ==
  /\ Idle(t)
  /\ g_prime_libunwind_once = "UNINIT"
  /\ g_prime_libunwind_once' = "RUNNING"
  /\ spc' = [spc EXCEPT ![t] = "priming"]
  /\ UNCHANGED <<sigVars, objVars, primedIn, blkVars, pending, masked, hpc, hblk, colVars,
                 stkVars, now, aborted>>

\* PrimeLibunwind returns on thread t; the once is done.
SelfCollect_End(t) ==
  /\ aborted = "no" /\ hpc[t] = "none" /\ spc[t] = "priming"
  /\ g_prime_libunwind_once' = "DONE"
  /\ primedIn' = "Collect"
  /\ spc' = [spc EXCEPT ![t] = "none"]
  /\ UNCHANGED <<sigVars, objVars, blkVars, pending, masked, hpc, hblk, colVars,
                 stkVars, now, aborted>>

\* The monotonic clock advances.
Tick ==
  /\ aborted = "no" /\ now < MaxClock
  /\ now' = now + 1
  /\ UNCHANGED <<sigVars, objVars, onceVars, blkVars, thrVars, colVars, stkVars, aborted>>

\* ------------------------------------------------------ the API's callers

\* A caller that owns collector c calls its methods in any order.
Call_TriggerAsync(c, tid) ==
  drv[c] = "free" /\ TriggerAsync_Init(c, tid) /\ UNCHANGED <<drv, ret>>

Call_AwaitCollection(c, dl) ==
  drv[c] = "free" /\ AwaitCollection_Begin(c, dl) /\ UNCHANGED <<drv, ret>>

Call_Destructor(c) ==
  drv[c] = "free" /\ Destructor(c) /\ UNCHANGED <<drv, ret>>

\* Mutant: the move copies the field and leaves the source as it was.
MoveField_Copy(f, c, d, null) == [f EXCEPT ![d] = f[c]]

\* The move constructor on one field (lines 368-371): the new collector d
\* takes the value of `other` = c, which is left with null.
MoveField(f, c, d, null) == [f EXCEPT ![d] = f[c], ![c] = null]

\* StackTraceCollector(StackTraceCollector&& other), lines 367-372: a new
\* collector d is constructed from collector c, which is in no call.
Call_Move(c, d) ==
  /\ c # d /\ drv[c] = "free" /\ drv[d] = "free"
  /\ Running(c) /\ Running(d)
  /\ pc[c] = "ready" /\ pc[d] = "absent"
  /\ tid_' = MoveField(tid_, c, d, 0)
  /\ sig_data_' = MoveField(sig_data_, c, d, nullptr)
  /\ pc' = [pc EXCEPT ![d] = "ready"]
  /\ UNCHANGED <<sigVars, objVars, onceVars, blkVars, thrVars, via, drv, arg, deadline,
                 status, ret, waitRes, stkVars, now, aborted>>

\* GetThreadStack, lines 509-510: a fresh collector, then TriggerAsync.
GetThreadStack_Trigger(c, tid) ==
  /\ drv[c] = "free" /\ status[c] = "none"
  /\ sig_data_[c] = nullptr /\ tid_[c] = 0
  /\ TriggerAsync_Init(c, tid)
  /\ drv' = [drv EXCEPT ![c] = "gts_trigger"]
  /\ UNCHANGED ret

\* GetThreadStack, lines 510-511: RETURN_NOT_OK on TriggerAsync's status (the
\* collector is destroyed on the way out), else AwaitCollection(now + 1s).
GetThreadStack_AfterTrigger(c) ==
  /\ drv[c] = "gts_trigger" /\ pc[c] = "ready"
  /\ IF status[c] = "OK"
     THEN /\ AwaitCollection_Begin(c, Min(now + OneSecond, MaxClock))
          /\ drv' = [drv EXCEPT ![c] = "gts_await"]
          /\ UNCHANGED ret
     ELSE /\ Destructor(c)
          /\ ret' = [ret EXCEPT ![c] = status[c]]
          /\ drv' = [drv EXCEPT ![c] = "gts_done"]

\* GetThreadStack, lines 511-513: AwaitCollection's status is returned and the
\* collector destroyed.
GetThreadStack_AfterAwait(c) ==
  /\ drv[c] = "gts_await" /\ pc[c] = "ready"
  /\ Destructor(c)
  /\ ret' = [ret EXCEPT ![c] = status[c]]
  /\ drv' = [drv EXCEPT ![c] = "gts_done"]

\* ------------------------------------------------------- specification

Next ==
  \/ \E c \in Collectors, tid \in Tids \cup {NoSuchTid} : Call_TriggerAsync(c, tid)
  \/ \E c \in Collectors : TriggerAsync_Once(c)
  \/ \E c \in Collectors : TriggerAsync_Prime(c)
  \/ \E c \in Collectors : TriggerAsync_Send(c)
  \/ \E c \in Collectors, dl \in 0..MaxClock : Call_AwaitCollection(c, dl)
  \/ \E c \in Collectors : Wait_Check(c)
  \/ \E c \in Collectors : Wait_Loop(c)
  \/ \E c \in Collectors : Wait_Futex(c)
  \/ \E c \in Collectors : Wait_Timeout(c)
  \/ \E c \in Collectors : Wait_Spurious(c)
  \/ \E c \in Collectors : Revoke_Exchange(c)
  \/ \E c \in Collectors : Revoke_Delete(c)
  \/ \E c \in Collectors : Call_Destructor(c)
  \/ \E c \in Collectors, tid \in Tids \cup {NoSuchTid} : GetThreadStack_Trigger(c, tid)
  \/ \E c \in Collectors : GetThreadStack_AfterTrigger(c)
  \/ \E c \in Collectors : GetThreadStack_AfterAwait(c)
  \/ \E t \in Tids, b \in Blocks : Deliver(t, b)
  \/ \E t \in Tids : Handler_CAS(t)
  \/ \E t \in Tids, safe \in BOOLEAN, n \in 0..MaxChain : Handler_Collect(t, safe, n)
  \/ \E t \in Tids : Handler_Store(t)
  \/ \E t \in Tids : Handler_Wake(t)
  \/ \E t \in Tids : SigMask(t)
  \/ \E t \in Tids : SelfCollect_Begin(t)
  \/ \E t \in Tids : SelfCollect_End(t)
  \/ Tick

Spec == Init /\ [][Next]_vars

\* SetStackTraceSignal(signum), lines 359-365, under g_signal_handler_lock.
SetStackTraceSignal(signum) ==
  /\ aborted = "no"
  /\ LET r == InitSignalHandlerUnlocked(signum, g_stack_trace_signum, state, disp)
     IN /\ g_stack_trace_signum' = r.signum
        /\ state' = r.state
        /\ disp' = r.disp
        /\ refused' = IF r.refuse THEN r.signum ELSE refused
        /\ found' = IF r.found # "none" THEN r.found ELSE found
        /\ sticky' = r.sticky
        /\ setRet' = IF r.ok THEN "OK" ELSE "InvalidArgument"
  /\ UNCHANGED <<objVars, onceVars, blkVars, thrVars, colVars, stkVars, now>>
  /\ UNCHANGED aborted

\* The choice of the signal: each signal number is free, ignored or taken by
\* a foreign handler at the start, two collectors are constructed, and the
\* threads keep the signal pending (no handler runs).
InitSig ==
  /\ InitCommon
  /\ call = NoCall
  /\ pc = [c \in Collectors |-> "ready"]
  /\ stk0 = [c \in Collectors |-> EmptyStack]
  /\ stk = stk0
  /\ disp \in [Signums -> {"SIG_DFL", "SIG_IGN", "foreign"}]

NextSig ==
  \/ \E signum \in Signums : SetStackTraceSignal(signum)
  \/ \E c \in Collectors, tid \in Tids \cup {NoSuchTid} : Call_TriggerAsync(c, tid)
  \/ \E c \in Collectors : TriggerAsync_Once(c)
  \/ \E c \in Collectors : TriggerAsync_Prime(c)
  \/ \E c \in Collectors : TriggerAsync_Send(c)
  \/ \E c \in Collectors : Call_Destructor(c)
  \/ \E c \in Collectors : Revoke_Exchange(c)

SpecSig == InitSig /\ [][NextSig]_vars

\* Code outside the library calls sigaction or signal for signal s: it sets
\* the default action, ignores the signal or installs a handler of its own.
ForeignSigaction(s, h) ==
  /\ aborted = "no"
  /\ disp[s] # h
  /\ disp' = [disp EXCEPT ![s] = h]
  /\ UNCHANGED <<g_stack_trace_signum, state, setRet, refused, found, sticky>>
  /\ UNCHANGED <<objVars, onceVars, blkVars, thrVars, colVars, stkVars, now, aborted>>

\* The choice of the signal with foreign code at work in between; the
\* collectors trigger and are kept.
NextSigEnv ==
  \/ \E signum \in Signums : SetStackTraceSignal(signum)
  \/ \E s \in Signums, h \in {"SIG_DFL", "SIG_IGN", "foreign"} : ForeignSigaction(s, h)
  \/ \E c \in Collectors, tid \in Tids \cup {NoSuchTid} : Call_TriggerAsync(c, tid)
  \/ \E c \in Collectors : TriggerAsync_Once(c)
  \/ \E c \in Collectors : TriggerAsync_Prime(c)
  \/ \E c \in Collectors : TriggerAsync_Send(c)

SpecSigEnv == InitSig /\ [][NextSigEnv]_vars

\* The same with every TriggerAsync aimed at thread 1: installation does not
\* look at the target.
NextSigSame ==
  \/ \E signum \in Signums : SetStackTraceSignal(signum)
  \/ \E s \in Signums, h \in {"SIG_DFL", "SIG_IGN", "foreign"} : ForeignSigaction(s, h)
  \/ \E c \in Collectors : Call_TriggerAsync(c, 1)
  \/ \E c \in Collectors : TriggerAsync_Once(c)
  \/ \E c \in Collectors : TriggerAsync_Prime(c)
  \/ \E c \in Collectors : TriggerAsync_Send(c)

SpecSigSame == InitSig /\ [][NextSigSame]_vars

\* ------------------------------------------- StackTrace's order and groups

\* Three StackTrace objects of any contents, as entries of a snapshot.
InitOrder ==
  /\ InitCommon
  /\ pc = [c \in Collectors |-> "absent"]
  /\ stk0 = [c \in Collectors |-> EmptyStack]
  /\ stk = stk0
  /\ disp = [s \in Signums |-> "SIG_DFL"]
  /\ \E s \in StackTraces, t \in StackTraces, u \in StackTraces :
       call = [op |-> "none",
               infos_ |-> <<ThreadInfo(1, "OK", s), ThreadInfo(2, "OK", t),
                            ThreadInfo(3, "OK", u)>>]

\* s.LessThan(t) for every two of the objects.
Call_LessThan ==
  /\ call.op = "none"
  /\ call' = [op |-> "LessThan", infos_ |-> call.infos_,
              less |-> [i \in 1..Len(call.infos_), j \in 1..Len(call.infos_) |->
                          LessThan(call.infos_[i].stack, call.infos_[j].stack)]]
  /\ UNCHANGED <<sigVars, onceVars, blkVars, thrVars, colVars, stkVars, now,
                 aborted, snap>>

\* The sort that ends SnapshotAllStacks, lines 786-788.
Call_Sort ==
  /\ call.op = "none"
  /\ call' = [op |-> "sort", infos_ |-> Sort(call.infos_)]
  /\ UNCHANGED <<sigVars, onceVars, blkVars, thrVars, colVars, stkVars, now,
                 aborted, snap>>

\* VisitGroups on the sorted entries.
Call_VisitGroups ==
  /\ call.op = "sort"
  /\ call' = [op |-> "VisitGroups", infos_ |-> call.infos_,
              groups |-> VisitGroups(call.infos_, 1)]
  /\ UNCHANGED <<sigVars, onceVars, blkVars, thrVars, colVars, stkVars, now,
                 aborted, snap>>

NextOrder ==
  \/ Call_LessThan
  \/ Call_Sort
  \/ Call_VisitGroups

SpecOrder == InitOrder /\ [][NextOrder]_vars

\* ------------------------------------------------ one StackTrace object

\* A StackTrace object of any contents.
InitTrace ==
  /\ InitCommon
  /\ pc = [c \in Collectors |-> "absent"]
  /\ stk0 = [c \in Collectors |-> EmptyStack]
  /\ stk = stk0
  /\ disp = [s \in Signums |-> "SIG_DFL"]
  /\ \E s \in StackTraces : call = [op |-> "none", s |-> s]

\* s.Collect(skip_frames) on a thread whose unwinder walks `chain`, lines
\* 577-615; GoogleOnceInit (line 591) is passed only when unwinding is safe.
Call_Collect(skip_frames, safe, chain) ==
  /\ call.op = "none"
  /\ call' = [op |-> "Collect", before |-> call.s, skip_frames |-> skip_frames,
              safe |-> safe, s |-> CollectInto(call.s, skip_frames, safe, chain)]
  /\ IF safe /\ g_prime_libunwind_once = "UNINIT"
     THEN g_prime_libunwind_once' = "DONE" /\ primedIn' = "Collect"
     ELSE UNCHANGED onceVars
  /\ UNCHANGED <<sigVars, blkVars, thrVars, colVars, stkVars, now, aborted, snap>>

\* s.StringifyToHex(buf, size, flags), lines 629-653.
Call_StringifyToHex(size, flags) ==
  /\ call.op \in {"none", "Collect"}
  /\ call' = [op |-> "StringifyToHex", s |-> call.s, size |-> size, flags |-> flags,
              buf |-> StringifyToHex(call.s, size, flags)]
  /\ UNCHANGED <<sigVars, onceVars, blkVars, thrVars, colVars, stkVars, now,
                 aborted, snap>>

NextTrace ==
  \/ \E skip_frames \in 0..2, safe \in BOOLEAN, n \in 0..MaxChain, t \in Tids :
       Call_Collect(skip_frames, safe, Chain(t, n))
  \/ \E size \in 0..MaxSize, flags \in SUBSET {"HEX_0X_PREFIX", "NO_FIX_CALLER_ADDRESSES"} :
       Call_StringifyToHex(size, flags)

SpecTrace == InitTrace /\ [][NextTrace]_vars

\* ------------------------------------- StackTraceSnapshot::SnapshotAllStacks

\* What the memory of a StackTrace's frames_ may hold where no frame was
\* stored: a value below and one above every address collected.
Uninitialized == {0, 2000}

\* The StackTrace object whose defined prefix is d, the rest of frames_
\* reading as junk.
AsStackTrace(d, junk) ==
  [frames_ |-> [k \in 1..kMaxDepth |-> IF k <= Len(d) THEN d[k] ELSE junk],
   num_frames_ |-> Len(d)]

\* StackTrace::HasCollected(): num_frames_ > 0.
HasCollected(d) == Len(d) > 0

\* What ListThreads may return (lines 524-546): thread ids as procfs lists
\* them in /proc/self/task, in ascending order; a thread listed may be gone
\* by the time it is signalled.
ThreadLists ==
  {l \in UNION {[1..n -> Tids \cup {NoSuchTid}] : n \in 1..Cardinality(Collectors)} :
     \A j, k \in DOMAIN l : j < k => l[j] < l[k]}

\* SnapshotAllStacks, lines 735-740: the two early returns.
EarlyReturn(dbg, listed) ==
  IF dbg THEN "Incomplete" ELSE IF ~listed THEN "IOError" ELSE "none"

\* Mutant: the entries are cleared before the debugger is asked about.
Entered_ClearsFirst(s, early, tids, allocated) ==
  IF early # "none"
  THEN [s EXCEPT !.st = early, !.calls = @ + 1, !.dbg = (early = "Incomplete"),
                 !.infos_ = << >>, !.num_failed_ = 0]
  ELSE [s EXCEPT !.pc = "trigger", !.i = 1, !.tids = tids, !.st = "none",
                 !.calls = @ + 1, !.dbg = FALSE, !.first = allocated,
                 !.infos_ = [k \in 1..Len(tids) |-> ThreadInfo(tids[k], "OK", EmptyStack)]]

\* SnapshotAllStacks, lines 735-745, on the snapshot s: an early return
\* leaves the object as it is; otherwise infos_ is cleared and resized to
\* one default-constructed entry per thread listed (num_failed_ is not
\* touched before line 773).
Entered(s, early, tids, allocated) ==
  IF early # "none"
  THEN [s EXCEPT !.st = early, !.calls = @ + 1, !.dbg = (early = "Incomplete")]
  ELSE [s EXCEPT !.pc = "trigger", !.i = 1, !.tids = tids, !.st = "none",
                 !.calls = @ + 1, !.dbg = FALSE, !.first = allocated,
                 !.infos_ = [k \in 1..Len(tids) |-> ThreadInfo(tids[k], "OK", EmptyStack)]]

\* Status::AndThen (line 776): the function runs only on an OK status.
AndThen(st, next) == IF st = "OK" THEN next ELSE st

\* Mutant: only a timed-out await counts as a failure.
CountFailure_AwaitOnly(num_failed, st) ==
  IF st = "TimedOut" THEN num_failed + 1 ELSE num_failed

\* Lines 779-780: num_failed_++ for an entry whose status is not OK.
CountFailure(num_failed, st) ==
  IF st # "OK" THEN num_failed + 1 ELSE num_failed

\* SnapshotAllStacks is called by the snapshot's thread and returns early
\* (lines 735-740): IsBeingDebugged says yes, or ListThreads fails.
Snapshot_EarlyReturn(dbg, listed) ==
  /\ aborted = "no" /\ snap.pc \in {"idle", "done"} /\ snap.calls < MaxCalls
  /\ hpc[snap.thread] = "none" /\ spc[snap.thread] = "none"
  /\ EarlyReturn(dbg, listed) # "none"
  /\ snap' = Entered(snap, EarlyReturn(dbg, listed), << >>, nalloc)
  /\ UNCHANGED <<sigVars, call, onceVars, blkVars, thrVars, colVars, stkVars, now, aborted>>

\* SnapshotAllStacks is called by the snapshot's thread and gets past the
\* early returns (lines 734-745), ListThreads giving tids: collectors_ is
\* cleared and resized to fresh collectors, one per thread listed, each with
\* its entry's StackTrace.
Snapshot_Begin(tids) ==
  /\ aborted = "no" /\ snap.pc \in {"idle", "done"} /\ snap.calls < MaxCalls
  /\ hpc[snap.thread] = "none" /\ spc[snap.thread] = "none"
  /\ nalloc + Len(tids) <= MaxBlocks
  /\ snap' = Entered(snap, EarlyReturn(FALSE, TRUE), tids, nalloc)
  /\ LET used == 1..Len(tids)
     IN /\ pc' = [c \in Collectors |-> IF c \in used THEN "ready" ELSE "absent"]
        /\ drv' = [c \in Collectors |-> IF c \in used THEN "snapshot" ELSE "free"]
  /\ via' = [c \in Collectors |-> "none"]
  /\ tid_' = [c \in Collectors |-> 0]
  /\ sig_data_' = [c \in Collectors |-> nullptr]
  /\ status' = [c \in Collectors |-> "none"]
  /\ waitRes' = [c \in Collectors |-> "none"]
  /\ stk' = [c \in Collectors |-> EmptyStack]
  /\ stk0' = [c \in Collectors |-> EmptyStack]
  /\ UNCHANGED <<arg, deadline, ret>>
  /\ UNCHANGED <<sigVars, call, onceVars, blkVars, thrVars, now, aborted>>

\* Line 748: collectors_[i].TriggerAsync(tids[i], &infos_[i].stack).
Snapshot_Trigger ==
  /\ snap.pc = "trigger"
  /\ drv[snap.i] = "snapshot" /\ status[snap.i] = "none"
  /\ TriggerAsync_Init(snap.i, snap.tids[snap.i])
  /\ UNCHANGED <<drv, ret>>

\* Lines 746-774: TriggerAsync has returned; its Status goes into the entry
\* and the loop goes on.  After the last thread num_failed_ is zeroed and
\* the shared deadline taken.  (Thread names, lines 752-772, touch nothing
\* modelled here.)
Snapshot_AfterTrigger ==
  /\ snap.pc = "trigger"
  /\ LET c == snap.i
     IN /\ Running(c) /\ pc[c] = "ready" /\ status[c] # "none"
        /\ snap' = IF c < Len(snap.tids)
                   THEN [snap EXCEPT !.infos_[c].status = status[c], !.i = c + 1]
                   ELSE [snap EXCEPT !.infos_[c].status = status[c], !.i = 1,
                                     !.pc = "await", !.num_failed_ = 0,
                                     !.deadline = Min(now + OneSecond, MaxClock)]
  /\ UNCHANGED <<sigVars, call, onceVars, blkVars, thrVars, colVars, stkVars, now, aborted>>

\* Mutant: AwaitCollection is called whatever the entry's status is.
Snapshot_Await_Always ==
  /\ snap.pc = "await"
  /\ via[snap.i] # "await"
  /\ AwaitCollection_Begin(snap.i, snap.deadline)
  /\ UNCHANGED <<drv, ret>>

\* Lines 776-778: collectors_[i].AwaitCollection(deadline) for an entry whose
\* trigger was OK.
Snapshot_Await ==
  /\ snap.pc = "await"
  /\ snap.infos_[snap.i].status = "OK" /\ via[snap.i] # "await"
  /\ AwaitCollection_Begin(snap.i, snap.deadline)
  /\ UNCHANGED <<drv, ret>>

\* Lines 776-783: the entry's status after AndThen; a failure is counted and
\* CHECKed to have left the entry's stack empty.
Snapshot_AfterAwait ==
  /\ snap.pc = "await"
  /\ LET c == snap.i
         st == AndThen(snap.infos_[c].status, status[c])
     IN /\ Running(c) /\ pc[c] = "ready"
        /\ snap.infos_[c].status = "OK" => via[c] = "await"
        /\ IF st # "OK" /\ HasCollected(stk[c])
           THEN /\ Abort("CHECK(!infos_[i].stack.HasCollected())")
                /\ UNCHANGED snap
           ELSE /\ snap' = [snap EXCEPT !.infos_[c].status = st,
                                        !.num_failed_ = CountFailure(@, st),
                                        !.i = c + 1,
                                        !.pc = IF c < Len(snap.tids) THEN "await" ELSE "sort"]
                /\ UNCHANGED aborted
  /\ UNCHANGED <<sigVars, call, onceVars, blkVars, thrVars, colVars, stkVars, now>>

\* Lines 784-789: collectors_.clear() destroys the collectors (none holds a
\* SignalData any more, so no destructor revokes), the entries are sorted
\* and OK is returned.  An entry holds the defined part of its stack, which
\* the handler wrote to stk; junk is what the rest of each entry's frames_
\* reads as when LessThan looks at it.
Snapshot_Finish(junk) ==
  /\ aborted = "no" /\ snap.pc = "sort"
  /\ hpc[snap.thread] = "none" /\ spc[snap.thread] = "none"
  /\ \A c \in 1..Len(snap.tids) : sig_data_[c] = nullptr
  /\ pc' = [c \in Collectors |-> IF c <= Len(snap.tids) THEN "destroyed" ELSE pc[c]]
  /\ via' = [c \in Collectors |-> "none"]
  /\ tid_' = [c \in Collectors |-> 0]
  /\ status' = [c \in Collectors |-> "none"]
  /\ waitRes' = [c \in Collectors |-> "none"]
  /\ deadline' = [c \in Collectors |-> 0]
  /\ LET traces == [k \in 1..Len(snap.tids) |->
                     [snap.infos_[k] EXCEPT !.stack = AsStackTrace(stk[k], junk[k])]]
         sorted == Sort(traces)
     IN snap' = [snap EXCEPT
          !.infos_ = [k \in 1..Len(snap.tids) |->
                        [sorted[k] EXCEPT !.stack = Defined(sorted[k].stack)]],
          !.pc = "done", !.st = "OK"]
  /\ UNCHANGED <<sigVars, call, onceVars, blkVars, thrVars, drv, sig_data_, arg,
                 ret, stkVars, now, aborted>>

\* Thread t blocks or unblocks the stack trace signal (pthread_sigmask)
\* before the snapshot is used.
Snapshot_SigMask(t) ==
  /\ aborted = "no" /\ hpc[t] = "none" /\ spc[t] = "none"
  /\ snap.pc = "idle"
  /\ masked' = [masked EXCEPT ![t] = ~@]
  /\ UNCHANGED <<sigVars, objVars, onceVars, blkVars, pending, hpc, hblk, spc, colVars,
                 stkVars, now, aborted>>

\* One StackTraceSnapshot, no collector yet; the stack trace signal is free
\* or taken by a foreign handler.
InitSnap ==
  /\ InitCommon
  /\ call = NoCall
  /\ pc = [c \in Collectors |-> "absent"]
  /\ stk0 = [c \in Collectors |-> EmptyStack]
  /\ stk = stk0
  /\ \E h \in {"SIG_DFL", "foreign"} :
       disp = [s \in Signums |-> IF s = SIGUSR2 THEN h ELSE "SIG_DFL"]

\* SnapshotAllStacks, called up to MaxCalls times on one snapshot by one
\* thread, with no debugger attached and the threads listed, and the threads
\* it signals, where unwinding is safe.  The threads choose their signal
\* masks before the first call, and time is let pass where the call reads
\* the clock again, in its waits.
NextSnap ==
  \/ \E tids \in ThreadLists : Snapshot_Begin(tids)
  \/ Snapshot_Trigger
  \/ \E c \in Collectors : TriggerAsync_Once(c)
  \/ \E c \in Collectors : TriggerAsync_Prime(c)
  \/ \E c \in Collectors : TriggerAsync_Send(c)
  \/ Snapshot_AfterTrigger
  \/ Snapshot_Await
  \/ \E c \in Collectors : Wait_Check(c)
  \/ \E c \in Collectors : Wait_Loop(c)
  \/ \E c \in Collectors : Wait_Futex(c)
  \/ \E c \in Collectors : Wait_Timeout(c)
  \/ \E c \in Collectors : Revoke_Exchange(c)
  \/ \E c \in Collectors : Revoke_Delete(c)
  \/ Snapshot_AfterAwait
  \/ \E junk \in [Collectors -> Uninitialized] : Snapshot_Finish(junk)
  \/ \E t \in Tids, b \in Blocks : Deliver(t, b)
  \/ \E t \in Tids : Handler_CAS(t)
  \/ \E t \in Tids : Handler_Collect(t, TRUE, MaxChain)
  \/ \E t \in Tids : Handler_Store(t)
  \/ \E t \in Tids : Handler_Wake(t)
  \/ \E t \in Tids : Snapshot_SigMask(t)
  \/ snap.pc = "await" /\ Tick

SpecSnap == InitSnap /\ [][NextSnap]_vars

\* One snapshot taken, and calls that return early before and after it.
NextSnapEarly ==
  \/ \E dbg, listed \in BOOLEAN : Snapshot_EarlyReturn(dbg, listed)
  \/ \E tids \in ThreadLists : snap.pc = "idle" /\ Snapshot_Begin(tids)
  \/ Snapshot_Trigger
  \/ \E c \in Collectors : TriggerAsync_Once(c)
  \/ \E c \in Collectors : TriggerAsync_Prime(c)
  \/ \E c \in Collectors : TriggerAsync_Send(c)
  \/ Snapshot_AfterTrigger
  \/ Snapshot_Await
  \/ \E c \in Collectors : Wait_Check(c)
  \/ \E c \in Collectors : Wait_Loop(c)
  \/ \E c \in Collectors : Wait_Futex(c)
  \/ \E c \in Collectors : Wait_Timeout(c)
  \/ \E c \in Collectors : Revoke_Exchange(c)
  \/ \E c \in Collectors : Revoke_Delete(c)
  \/ Snapshot_AfterAwait
  \/ \E junk \in [Collectors -> Uninitialized] : Snapshot_Finish(junk)
  \/ \E t \in Tids, b \in Blocks : Deliver(t, b)
  \/ \E t \in Tids : Handler_CAS(t)
  \/ \E t \in Tids : Handler_Collect(t, TRUE, MaxChain)
  \/ \E t \in Tids : Handler_Store(t)
  \/ \E t \in Tids : Handler_Wake(t)
  \/ \E t \in Tids : Snapshot_SigMask(t)
  \/ snap.pc = "await" /\ Tick

SpecSnapEarly == InitSnap /\ [][NextSnapEarly]_vars

\* Thread ids that are no thread's: the values queued_to_tid uses as marks.
InvalidTids == {kNotInUse, kDumpStarted}

\* The collector's whole public API, the move constructor included, called
\* in any order with any thread id, valid or not, and the target threads.
\* The deadline of every AwaitCollection has come when it is called.
NextMove ==
  \/ \E c \in Collectors, tid \in {1, NoSuchTid} \cup InvalidTids :
       Call_TriggerAsync(c, tid)
  \/ \E c \in Collectors : TriggerAsync_Once(c)
  \/ \E c \in Collectors : TriggerAsync_Prime(c)
  \/ \E c \in Collectors : TriggerAsync_Send(c)
  \/ \E c \in Collectors : Call_AwaitCollection(c, 0)
  \/ \E c \in Collectors : Wait_Check(c)
  \/ \E c \in Collectors : Wait_Loop(c)
  \/ \E c \in Collectors : Wait_Futex(c)
  \/ \E c \in Collectors : Revoke_Exchange(c)
  \/ \E c \in Collectors : Revoke_Delete(c)
  \/ \E c \in Collectors : Call_Destructor(c)
  \/ \E c, d \in Collectors : Call_Move(c, d)
  \/ \E t \in Tids, b \in Blocks : Deliver(t, b)
  \/ \E t \in Tids : Handler_CAS(t)
  \/ \E t \in Tids : Handler_Collect(t, TRUE, 1)
  \/ \E t \in Tids : Handler_Store(t)
  \/ \E t \in Tids : Handler_Wake(t)

\* The signal is free and the first collector's StackTrace is fresh.
InitMove == Init /\ disp[SIGUSR2] = "SIG_DFL" /\ stk[1] = EmptyStack

SpecMove == InitMove /\ [][NextMove]_vars

\* Two tracers at once, each calling GetThreadStack (one TriggerAsync /
\* AwaitCollection pair) for a live thread the other does not ask for.
InitMulti ==
  /\ InitCommon
  /\ call = NoCall
  /\ pc = [c \in Collectors |-> "ready"]
  /\ stk0 = [c \in Collectors |-> EmptyStack]
  /\ stk = stk0
  /\ \E h \in {"SIG_DFL", "foreign"} :
       disp = [s \in Signums |-> IF s = SIGUSR2 THEN h ELSE "SIG_DFL"]

\* The tids the other collectors have asked for.
Requested(c) == {arg[d] : d \in Collectors \ {c}} \cup {tid_[d] : d \in Collectors \ {c}}

NextMulti ==
  \/ \E c \in Collectors : \E tid \in Tids \ Requested(c) : GetThreadStack_Trigger(c, tid)
  \/ \E c \in Collectors : TriggerAsync_Once(c)
  \/ \E c \in Collectors : TriggerAsync_Prime(c)
  \/ \E c \in Collectors : TriggerAsync_Send(c)
  \/ \E c \in Collectors : GetThreadStack_AfterTrigger(c)
  \/ \E c \in Collectors : Wait_Check(c)
  \/ \E c \in Collectors : Wait_Loop(c)
  \/ \E c \in Collectors : Wait_Futex(c)
  \/ \E c \in Collectors : Wait_Timeout(c)
  \/ \E c \in Collectors : Revoke_Exchange(c)
  \/ \E c \in Collectors : Revoke_Delete(c)
  \/ \E c \in Collectors : GetThreadStack_AfterAwait(c)
  \/ \E t \in Tids, b \in Blocks : Deliver(t, b)
  \/ \E t \in Tids : Handler_CAS(t)
  \/ \E t \in Tids, safe \in BOOLEAN : Handler_Collect(t, safe, MaxChain)
  \/ \E t \in Tids : Handler_Store(t)
  \/ \E t \in Tids : Handler_Wake(t)
  \/ Tick

SpecMulti == InitMulti /\ [][NextMulti]_vars

\* The steps a tracer inside AwaitCollection or RevokeSigData takes by itself,
\* and the steps of a handler that has started.
TracerStep(c) ==
  \/ Wait_Check(c) \/ Wait_Loop(c) \/ Wait_Futex(c) \/ Wait_Timeout(c)
  \/ Revoke_Exchange(c) \/ Revoke_Delete(c)
HandlerStep(t) ==
  \/ Handler_CAS(t) \/ Handler_Store(t) \/ Handler_Wake(t)
  \/ \E safe \in BOOLEAN, n \in 0..MaxChain : Handler_Collect(t, safe, n)

\* Threads that can run do run, and the clock advances.  Nothing makes the
\* kernel deliver a signal (the target may block it for ever) and nothing
\* wakes a futex waiter for no reason.
Fairness ==
  /\ \A c \in Collectors : WF_vars(TracerStep(c))
  /\ \A t \in Tids : WF_vars(HandlerStep(t))
  /\ WF_vars(Tick)

\* The operations a call of AwaitCollection depends on: one tracer that
\* triggers and awaits, its targets and the clock.  No thread blocks the
\* signal here: an undelivered signal stays pending just as well, since
\* nothing obliges Deliver to happen.
NextLive ==
  \/ \E c \in Collectors, tid \in Tids \cup {NoSuchTid} : Call_TriggerAsync(c, tid)
  \/ \E c \in Collectors : TriggerAsync_Once(c)
  \/ \E c \in Collectors : TriggerAsync_Prime(c)
  \/ \E c \in Collectors : TriggerAsync_Send(c)
  \/ \E c \in Collectors, dl \in 0..MaxClock : Call_AwaitCollection(c, dl)
  \/ \E c \in Collectors : Wait_Check(c)
  \/ \E c \in Collectors : Wait_Loop(c)
  \/ \E c \in Collectors : Wait_Futex(c)
  \/ \E c \in Collectors : Wait_Timeout(c)
  \/ \E c \in Collectors : Wait_Spurious(c)
  \/ \E c \in Collectors : Revoke_Exchange(c)
  \/ \E c \in Collectors : Revoke_Delete(c)
  \/ \E t \in Tids, b \in Blocks : Deliver(t, b)
  \/ \E t \in Tids : Handler_CAS(t)
  \/ \E t \in Tids, safe \in BOOLEAN, n \in 0..MaxChain : Handler_Collect(t, safe, n)
  \/ \E t \in Tids : Handler_Store(t)
  \/ \E t \in Tids : Handler_Wake(t)
  \/ \E t \in Tids : SelfCollect_Begin(t)
  \/ \E t \in Tids : SelfCollect_End(t)
  \/ Tick

LiveSpec == Init /\ [][NextLive]_vars /\ Fairness

\* A tracer whose only target is its own thread, as for the calling thread
\* in SnapshotAllStacks' list: the signal it queues is handled on the
\* tracer's thread, at any point where the thread does not block it.
NextSelf ==
  \/ \E c \in Collectors : Call_TriggerAsync(c, Owner(c))
  \/ \E c \in Collectors : TriggerAsync_Once(c)
  \/ \E c \in Collectors : TriggerAsync_Prime(c)
  \/ \E c \in Collectors : TriggerAsync_Send(c)
  \/ \E c \in Collectors, dl \in 0..MaxClock : Call_AwaitCollection(c, dl)
  \/ \E c \in Collectors : Wait_Check(c)
  \/ \E c \in Collectors : Wait_Loop(c)
  \/ \E c \in Collectors : Wait_Futex(c)
  \/ \E c \in Collectors : Wait_Timeout(c)
  \/ \E c \in Collectors : Wait_Spurious(c)
  \/ \E c \in Collectors : Revoke_Exchange(c)
  \/ \E c \in Collectors : Revoke_Delete(c)
  \/ \E t \in Tids, b \in Blocks : Deliver(t, b)
  \/ \E t \in Tids : Handler_CAS(t)
  \/ \E t \in Tids, safe \in BOOLEAN, n \in 0..MaxChain : Handler_Collect(t, safe, n)
  \/ \E t \in Tids : Handler_Store(t)
  \/ \E t \in Tids : Handler_Wake(t)
  \/ \E t \in Tids : SigMask(t)
  \/ \E t \in Tids : SelfCollect_Begin(t)
  \/ \E t \in Tids : SelfCollect_End(t)
  \/ Tick

LiveSelf == Init /\ [][NextSelf]_vars /\ Fairness


\* ---------------------------------------------------------------- claims

Allocated == 1..nalloc
\* The handler invocations that received block b.
HandlersOf(b) == {t \in Tids : hblk[t] = b}

\* C1: once RevokeSigData's exchange has found the target's tid in a block
\* (the revocation won), the handler for that block, however late it runs,
\* fails its CAS, never gets to Collect or Signal, and the caller's StackTrace
\* is exactly what it was before TriggerAsync.
C1_RevokedBlockUntouched ==
  \A b \in Allocated :
    blk[b].xchg = "tid" =>
      /\ blk[b].cas # "won"
      /\ ~blk[b].wrote
      /\ blk[b].ready = 0
      /\ blk[b].queued = kNotInUse
      /\ \A t \in HandlersOf(b) : hpc[t] = "cas"
      /\ stk[blk[b].stack] = stk0[blk[b].stack]

\* A handler ran after the revocation and lost its CAS; the caller's
\* StackTrace held an earlier trace.
C1_Witness ==
  \E b \in Allocated :
    /\ blk[b].xchg = "tid" /\ blk[b].cas = "lost"
    /\ stk0[blk[b].stack] = OldStack

\* C2: a block is freed only when its signal was never queued, or after the
\* handler that won the CAS has set result_ready; a block revoked while still
\* queued to its target is never freed; so no handler step that dereferences
\* the block, and no signal still queued, meets a freed block.
C2_NoUseAfterFree ==
  /\ \A b \in Allocated :
       /\ blk[b].freed => ~blk[b].sent \/ (blk[b].cas = "won" /\ blk[b].ready = 1)
       /\ blk[b].xchg = "tid" => ~blk[b].freed
  /\ \A t \in Tids :
       /\ hpc[t] \in {"cas", "collect", "store"} => ~blk[hblk[t]].freed
       /\ \A b \in pending[t] : ~blk[b].freed

\* One block was leaked by a revocation and its signal is still queued or its
\* handler at the CAS; or a block was freed while its handler was still in the
\* wake-up call.
C2_Witness ==
  \/ \E b \in Allocated, t \in Tids :
       blk[b].xchg = "tid" /\ hblk[t] = b /\ hpc[t] = "cas"
  \/ \E t \in Tids : hpc[t] = "wake" /\ blk[hblk[t]].freed

\* C3: when RevokeSigData is about to free the block and return "completed",
\* and ever after, the handler has finished Collect into the caller's
\* StackTrace and has set result_ready; while a handler is between its
\* successful CAS and its Signal, the tracer still holds the block and has
\* neither freed it nor returned.
C3_CompletedAfterSignal ==
  /\ \A b \in Allocated :
       LET c == blk[b].stack
       IN (blk[b].sent /\ (blk[b].freed \/ (sig_data_[c] = b /\ pc[c] = "r_delete")))
            => /\ blk[b].wrote /\ blk[b].ready = 1
               /\ \A t \in HandlersOf(b) : hpc[t] = "wake"
  /\ \A t \in Tids :
       hpc[t] \in {"collect", "store"} =>
         LET c == blk[hblk[t]].stack
         IN sig_data_[c] = hblk[t] /\ pc[c] # "r_delete" /\ ~blk[hblk[t]].freed

\* AwaitCollection returned OK for a block the handler wrote.
C3_Witness ==
  \E c \in Collectors, b \in Allocated :
    /\ blk[b].stack = c /\ blk[b].freed /\ blk[b].wrote
    /\ via[c] = "await" /\ pc[c] = "ready" /\ status[c] = "OK"

\* The block of collector c's successful TriggerAsync.
SentBy(c) == {b \in Allocated : blk[b].stack = c /\ blk[b].sent}

\* C4: AwaitCollection's result is decided by the exchange alone: OK exactly
\* when the handler's CAS came before the exchange, TimedOut exactly when the
\* exchange found the target's tid, whatever the timed wait returned.
C4_ExchangeDecides ==
  \A c \in Collectors :
    (via[c] = "await" /\ pc[c] \in {"ready", "destroyed"}) =>
      \A b \in SentBy(c) :
        /\ status[c] \in {"OK", "TimedOut"}
        /\ status[c] = "OK" <=> blk[b].casFirst
        /\ status[c] = "TimedOut" <=> blk[b].xchg = "tid"

\* AwaitCollection returned OK although its timed wait had timed out.
C4_Witness ==
  \E c \in Collectors :
    /\ via[c] = "await" /\ pc[c] = "ready"
    /\ status[c] = "OK" /\ waitRes[c] = "timeout"

\* C7: when the signal cannot be delivered TriggerAsync returns NotFound, the
\* new block is freed and reaches no handler, the collector holds no block
\* (sig_data_ null, tid_ 0), nothing of it was ever revoked, the caller's
\* StackTrace is unchanged; GetThreadStack returns NotFound without calling
\* AwaitCollection.
C7_NotFoundLeavesNothing ==
  /\ \A b \in Allocated :
       ~blk[b].sent =>
         /\ blk[b].freed /\ blk[b].cas = "none" /\ blk[b].xchg = "none"
         /\ ~blk[b].wrote /\ blk[b].ready = 0
         /\ HandlersOf(b) = {}
         /\ \A t \in Tids : b \notin pending[t]
         /\ \A c \in Collectors : sig_data_[c] # b
  /\ \A c \in Collectors :
       /\ status[c] = "NotFound" =>
            /\ sig_data_[c] = nullptr /\ tid_[c] = 0
            /\ via[c] = "none"
            /\ stk[c] = stk0[c]
       /\ (drv[c] = "gts_done" /\ status[c] = "NotFound") =>
            ret[c] = "NotFound" /\ pc[c] = "destroyed"
       /\ ret[c] = "NotFound" => status[c] = "NotFound"

\* GetThreadStack returned NotFound; the caller's StackTrace held an earlier
\* trace.
C7_Witness ==
  \E c \in Collectors :
    /\ ret[c] = "NotFound" /\ stk0[c] = OldStack
    /\ \E b \in Allocated : blk[b].stack = c /\ blk[b].freed /\ ~blk[b].sent

\* C9: PrimeLibunwind has completed, outside any signal handler, before a
\* stack trace signal is sent; no handler ever runs or waits on the priming.
C9_PrimedBeforeSignal ==
  /\ (\E b \in Allocated : blk[b].sent) => g_prime_libunwind_once = "DONE"
  /\ \A t \in Tids : hpc[t] # "none" => g_prime_libunwind_once = "DONE"
  /\ primedIn # "signal"

\* A handler is in Collect, and the priming was done by a thread's own first
\* Collect, which TriggerAsync had to wait for.
C9_Witness ==
  \E t \in Tids : hpc[t] = "collect" /\ primedIn = "Collect"

\* C10 (as claimed): a collector that has returned from one TriggerAsync,
\* whatever it returned, never gets past the CHECK of another.
C10_SecondTriggerAborts ==
  [][\A c \in Collectors :
       (pc[c] = "ready" /\ status[c] # "none") => pc'[c] # "t_once"]_vars


\* The instruction pointers a trace of thread t can hold.
FramesOf(t) == {IP(t, i) : i \in 1..MaxChain}

\* Every handler runs on the thread its block was queued to, the block it
\* writes through belongs to the collector that asked for that thread, and a
\* caller's StackTrace holds nothing but frames of the thread it asked for
\* (or the marker of an unsafe collection).
Isolation ==
  /\ \A t \in Tids : hpc[t] # "none" => blk[hblk[t]].tid = t
  /\ \A b \in Allocated : blk[b].wrote => tid_[blk[b].stack] = blk[b].tid
  /\ \A c \in Collectors : \A i \in 1..Len(stk[c]) :
       stk[c][i] \in FramesOf(tid_[c]) \cup {f_ptr + 1}
  /\ \A c \in Collectors : ret[c] = "OK" =>
       \E b \in Allocated : blk[b].stack = c /\ blk[b].tid = tid_[c] /\ blk[b].wrote

\* C5 (as claimed): concurrent requests for distinct live threads end with
\* OK, TimedOut or NotFound, and no caller's StackTrace receives frames of
\* another request or another thread.
C5_ThreeOutcomes ==
  /\ \A c \in Collectors :
       drv[c] = "gts_done" => ret[c] \in {"OK", "TimedOut", "NotFound"}
  /\ Isolation

\* C5 (amended): concurrent requests for distinct live threads end with OK,
\* TimedOut, NotFound, or NotSupported when the handler could not be
\* installed, and no caller's StackTrace receives frames of another request
\* or another thread.
C5_OutcomesAndIsolation ==
  /\ \A c \in Collectors :
       /\ drv[c] = "gts_done" =>
            ret[c] \in {"OK", "TimedOut", "NotFound", "NotSupported"}
       /\ ret[c] = "NotSupported" => state = "INIT_ERROR" /\ stk[c] = stk0[c]
  /\ Isolation

\* Two handlers have written at the same time, each the frames of its own
\* thread into the StackTrace of the collector that asked for it.
C5_Witness ==
  \E t1, t2 \in Tids :
    /\ t1 # t2 /\ hpc[t1] = "store" /\ hpc[t2] = "store"
    /\ blk[hblk[t1]].stack # blk[hblk[t2]].stack
    /\ \A t \in {t1, t2} :
         /\ Len(stk[blk[hblk[t]].stack]) > 0
         /\ stk[blk[hblk[t]].stack][1] \in FramesOf(t)

\* A collector TriggerAsync has not used yet.
Unused(c) == sig_data_[c] = nullptr /\ tid_[c] = 0

\* TriggerAsync returned NotSupported: nothing allocated, nothing sent.
TriggerRefused(c) ==
  /\ status'[c] = "NotSupported" /\ pc'[c] = "ready"
  /\ UNCHANGED <<blkVars, pending>>

\* SetStackTraceSignal returns InvalidArgument when the chosen signal is
\* refused, and no step replaces a foreign handler.
RefusalReported ==
  /\ [][\A signum \in Signums :
         (SetStackTraceSignal(signum) /\ state' = "INIT_ERROR")
           => setRet' = "InvalidArgument"]_vars
  /\ [][\A s \in Signums : disp[s] = "foreign" => disp'[s] = "foreign"]_vars

\* C8 (as claimed): once installation was refused because the chosen signal
\* had a foreign handler, SetStackTraceSignal returns InvalidArgument, every
\* later TriggerAsync returns NotSupported without allocating or sending,
\* and the foreign handler stays.
C8_EveryLaterTrigger ==
  /\ RefusalReported
  /\ [][\A c \in Collectors, tid \in Tids \cup {NoSuchTid} :
         (refused # 0 /\ Unused(c) /\ TriggerAsync_Init(c, tid))
           => TriggerRefused(c)]_vars

\* C8 (amended): once installation was refused because the chosen signal
\* had a foreign handler, SetStackTraceSignal returns InvalidArgument, every
\* later TriggerAsync made while that signal is still the chosen one returns
\* NotSupported without allocating or sending, and the foreign handler stays.
C8_WhileSignalChosen ==
  /\ RefusalReported
  /\ [](state = "INIT_ERROR" =>
         refused = g_stack_trace_signum /\ disp[g_stack_trace_signum] = "foreign")
  /\ [](setRet = "InvalidArgument" => state = "INIT_ERROR")
  /\ [][\A c \in Collectors, tid \in Tids \cup {NoSuchTid} :
         (state = "INIT_ERROR" /\ Unused(c) /\ TriggerAsync_Init(c, tid))
           => TriggerRefused(c)]_vars

\* SetStackTraceSignal chose the other signal number, found a foreign
\* handler there and returned InvalidArgument; a TriggerAsync made after
\* that returned NotSupported.
C8_Witness ==
  /\ setRet = "InvalidArgument" /\ state = "INIT_ERROR"
  /\ g_stack_trace_signum = SIGUSR2 - 2
  /\ disp[SIGUSR2] # "foreign" /\ disp[g_stack_trace_signum] = "foreign"
  /\ nalloc = 0
  /\ \E c \in Collectors : status[c] = "NotSupported"

\* The entries' StackTrace objects in a call of LessThan, sort or VisitGroups.
Operand(i) == call.infos_[i].stack
Operands == 1..Len(call.infos_)

\* C13 (as claimed): after the sort the entries are ordered by LessThan, and
\* the runs VisitGroups hands to the visitor are the entries in order, all
\* stacks of a run Equals-equal and no two runs holding Equals-equal stacks.
C13_SortedAndGrouped ==
  call.op = "VisitGroups" =>
    LET groups == call.groups
        Flat[k \in 0..Len(groups)] ==
          IF k = 0 THEN << >> ELSE Flat[k - 1] \o groups[k]
    IN /\ \A i \in Operands, j \in Operands :
            i < j => ~LessThan(Operand(j), Operand(i))
       /\ Flat[Len(groups)] = call.infos_
       /\ \A g \in 1..Len(groups) :
            /\ groups[g] # << >>
            /\ \A i \in 1..Len(groups[g]), j \in 1..Len(groups[g]) :
                 Equals(groups[g][i].stack, groups[g][j].stack)
       /\ \A g \in 1..Len(groups), h \in 1..Len(groups) :
            g # h => \A i \in 1..Len(groups[g]), j \in 1..Len(groups[h]) :
                       ~Equals(groups[g][i].stack, groups[h][j].stack)

\* C14 (as claimed): a.LessThan(b) is the lexicographic comparison of a's
\* defined frames with b's defined frames, so a proper prefix is less, and
\* b's slots from b.num_frames_ on do not matter.
C14_LexicographicOverDefined ==
  call.op = "LessThan" =>
    \A i \in Operands, j \in Operands :
      call.less[i, j] = LexicographicalCompare(Defined(Operand(i)), Defined(Operand(j)))

\* C15 (as claimed): LessThan is irreflexive and transitive, and of two
\* stacks that are not Equals one is less than the other.
C15_StrictTotalOrder ==
  call.op = "LessThan" =>
    /\ \A i \in Operands : ~call.less[i, i]
    /\ \A i \in Operands, j \in Operands, k \in Operands :
         call.less[i, j] /\ call.less[j, k] => call.less[i, k]
    /\ \A i \in Operands, j \in Operands :
         ~Equals(Operand(i), Operand(j)) => call.less[i, j] \/ call.less[j, i]

\* C16 (as claimed, for buffers of at least one byte): StringifyToHex writes
\* only buf[0..size-1], ends with a NUL, and the text before the NUL has at
\* most size-1 bytes.
C16_WithinBuffer ==
  (call.op = "StringifyToHex" /\ call.size > 0) =>
    /\ Len(call.buf) <= call.size
    /\ call.buf[Len(call.buf)] = "NUL"
    /\ \A k \in 1..(Len(call.buf) - 1) : call.buf[k] # "NUL"

\* C17 (as claimed): a stack GetThreadStack returned with OK has at least one
\* frame and no null frame.
C17_AtLeastOneFrame ==
  \A c \in Collectors :
    ret[c] = "OK" =>
      /\ Len(stk[c]) >= 1
      /\ \A i \in 1..Len(stk[c]) : stk[c][i] # nullptr

\* C17 (amended): a stack GetThreadStack returned with OK is what the
\* handler's Collect(1) left on the requested thread: the one sentinel frame
\* if unwinding was not safe, else the frames the unwinder reached beyond
\* Collect's and the handler's own, none if it stopped within those two.
C17_WhatTheHandlerCollected ==
  \A c \in Collectors :
    ret[c] = "OK" =>
      /\ \E b \in Allocated : blk[b].stack = c /\ blk[b].wrote /\ blk[b].ready = 1
      /\ \/ stk[c] = <<f_ptr + 1>>
         \/ \E n \in 0..MaxChain :
              stk[c] = [i \in 1..(n - 2) |-> IP(tid_[c], i + 2)]

\* GetThreadStack returned OK and the stack, which held an earlier trace, is
\* empty: the unwinder stopped before it left the handler.
C17_Witness ==
  \E c \in Collectors :
    ret[c] = "OK" /\ stk0[c] = OldStack /\ stk[c] = << >>

\* C18: when unwinding is not safe, Collect leaves exactly one frame, the
\* sentinel function's address plus one, and does not prime libunwind,
\* whatever skip_frames is and whatever the StackTrace held.
C18_UnsafeGivesSentinel ==
  (call.op = "Collect" /\ ~call.safe) =>
    /\ call.s.num_frames_ = 1
    /\ Defined(call.s) = <<f_ptr + 1>>
    /\ \A i \in DOMAIN call.s.frames_ : i > 1 => call.s.frames_[i] = call.before.frames_[i]
    /\ g_prime_libunwind_once = "UNINIT" /\ primedIn = "none"

\* An unsafe Collect with frames to skip, on a StackTrace that was full.
C18_Witness ==
  /\ call.op = "Collect" /\ ~call.safe
  /\ call.skip_frames > 0 /\ call.before.num_frames_ = MaxFrames
  /\ call.s.num_frames_ = 1

\* C19: queued_to_tid of an allocated block changes only from the target's
\* tid to kDumpStarted (by the handler's first and only CAS on the block) or
\* to kNotInUse, or from kDumpStarted to kNotInUse; result_ready changes only
\* from 0 to 1, in the Signal of a handler that won the CAS on that block.
C19_PublishedStateMachine ==
  [][\A b \in Allocated :
       LET old == blk[b]
           new == blk'[b]
       IN /\ new.queued # old.queued =>
               \/ /\ old.queued = old.tid /\ new.queued = kDumpStarted
                  /\ old.cas = "none" /\ new.cas = "won"
                  /\ \E t \in Tids : hblk[t] = b /\ hpc[t] = "cas" /\ t = old.tid
               \/ old.queued = old.tid /\ new.queued = kNotInUse
               \/ old.queued = kDumpStarted /\ new.queued = kNotInUse
          /\ new.ready # old.ready =>
               /\ old.ready = 0 /\ new.ready = 1
               /\ old.cas = "won"
               /\ \E t \in Tids : hblk[t] = b /\ hpc[t] = "store"]_vars

\* A block went from the tid to kDumpStarted to kNotInUse, its result_ready
\* set on the way.
C19_Witness ==
  \E b \in Allocated :
    /\ blk[b].cas = "won" /\ blk[b].xchg = "started"
    /\ blk[b].ready = 1 /\ blk[b].queued = kNotInUse

\* C20: the library's handler is on no signal but the selected one; when the
\* number changes while the library is installed, the previous signal goes
\* to the default action if it still carries the library's handler, and
\* keeps what it carries otherwise.
C20_HandlerOnlyOnSelected ==
  /\ [](\A s \in Signums :
         disp[s] = "HandleStackTraceSignal" => s = g_stack_trace_signum)
  /\ [][\A s \in Signums :
         (s = g_stack_trace_signum /\ g_stack_trace_signum' # s /\ state = "INITIALIZED")
           => /\ found' = disp[s]
              /\ disp'[s] = IF disp[s] = "HandleStackTraceSignal"
                            THEN "SIG_DFL" ELSE disp[s]]_vars

\* The number changed while the library was installed; the previous signal
\* carried a foreign handler by then, which is still there, and the
\* library's handler is on the new signal.
C20_Witness ==
  /\ found = "foreign" /\ state = "INITIALIZED"
  /\ disp[g_stack_trace_signum] = "HandleStackTraceSignal"
  /\ \E s \in Signums : s # g_stack_trace_signum /\ disp[s] = "foreign"

\* The SignalData allocated by the last call of SnapshotAllStacks for the
\* thread of entry e.
BlocksFor(e) == {b \in (snap.first + 1)..nalloc : blk[b].tid = e.tid}

\* Entry e records what became of its own thread's collection: OK with the
\* stack the thread's handler wrote, TimedOut with the signal revoked before
\* the handler took it and nothing written, NotFound for a thread that was
\* gone, NotSupported with no handler installed and no signal sent.
RecordsOwnOutcome(e) ==
  CASE e.status = "OK" ->
         \E b \in BlocksFor(e) :
           /\ blk[b].sent /\ blk[b].cas = "won" /\ blk[b].ready = 1 /\ blk[b].wrote
           /\ e.stack \in {<<f_ptr + 1>>, Collect(1, TRUE, Chain(e.tid, MaxChain))}
    [] e.status = "TimedOut" ->
         /\ e.stack = EmptyStack
         /\ \E b \in BlocksFor(e) :
              blk[b].sent /\ blk[b].xchg = "tid" /\ ~blk[b].wrote /\ ~blk[b].freed
    [] e.status = "NotFound" ->
         /\ e.stack = EmptyStack /\ e.tid \notin Tids
         /\ \E b \in BlocksFor(e) : ~blk[b].sent /\ blk[b].freed
    [] e.status = "NotSupported" ->
         /\ e.stack = EmptyStack /\ state # "INITIALIZED" /\ BlocksFor(e) = {}
    [] OTHER -> FALSE

\* The entries of a snapshot whose status is not OK.
Failed(infos) == {k \in DOMAIN infos : infos[k].status # "OK"}

\* C11: with no debugger attached and the threads listed, no CHECK of
\* SnapshotAllStacks fails, whatever becomes of each thread, and once
\* the call has returned its Status is OK, there is one entry per thread
\* listed, each entry records its own thread's outcome, and num_failed_ is
\* the number of entries whose status is not OK.
C11_SnapshotSucceeds ==
  /\ aborted = "no"
  /\ snap.pc = "sort" => \A c \in 1..Len(snap.tids) : sig_data_[c] = nullptr
  /\ (snap.pc = "done" /\ snap.st = "OK") =>
       /\ Len(snap.infos_) = Len(snap.tids)
       /\ {snap.infos_[k].tid : k \in DOMAIN snap.infos_} =
            {snap.tids[k] : k \in DOMAIN snap.tids}
       /\ \A k \in DOMAIN snap.infos_ : RecordsOwnOutcome(snap.infos_[k])
       /\ snap.num_failed_ = Cardinality(Failed(snap.infos_))
  /\ (snap.pc = "done" /\ ~snap.dbg /\ snap.st # "IOError") => snap.st = "OK"

\* A snapshot of two threads has returned OK with both entries failed, one
\* by a trigger that found no thread and one by an await that timed out.
C11_Witness ==
  /\ snap.pc = "done" /\ snap.st = "OK" /\ snap.num_failed_ = 2
  /\ \E j, k \in DOMAIN snap.infos_ :
       snap.infos_[j].status = "NotFound" /\ snap.infos_[k].status = "TimedOut"

\* C12: a call of SnapshotAllStacks that finds a debugger attached returns
\* Incomplete and changes nothing: the thread list, the entries, num_failed_,
\* the collectors, the SignalData allocated and the signals pending are
\* what they were.
C12_DebuggerChangesNothing ==
  [][(snap'.calls # snap.calls /\ snap'.dbg) =>
       /\ snap'.st = "Incomplete"
       /\ snap'.tids = snap.tids
       /\ snap'.infos_ = snap.infos_
       /\ snap'.num_failed_ = snap.num_failed_
       /\ UNCHANGED <<colVars, blkVars, thrVars, stkVars, sigVars>>]_vars

\* A snapshot that holds entries and a failure count from an earlier call
\* was asked again with a debugger attached and said Incomplete.
C12_Witness ==
  /\ snap.st = "Incomplete" /\ snap.dbg /\ snap.calls > 1
  /\ snap.infos_ # << >> /\ snap.num_failed_ > 0 /\ nalloc > 0

\* The signal carries neither a foreign handler nor the library's.
Free(s) == disp[s] \in {"SIG_DFL", "SIG_IGN"}

\* No step of the library touched the signal state or a disposition.
NothingInstalled == UNCHANGED <<g_stack_trace_signum, state, disp>>

\* C21: with foreign code free to change dispositions, (a) while the state
\* is INIT_ERROR every SetStackTraceSignal of the selected number returns
\* InvalidArgument and every TriggerAsync returns NotSupported, installing
\* nothing, whatever the signal carries by then; (b) SetStackTraceSignal of
\* another number whose disposition is default or ignore installs the
\* handler there and returns OK, and a TriggerAsync made while INITIALIZED
\* goes on; (c) once INITIALIZED, calls with the selected number install
\* nothing.
C21_StickyUntilNumberChanges ==
  /\ [][\A signum \in Signums :
         (state = "INIT_ERROR" /\ signum = g_stack_trace_signum
            /\ SetStackTraceSignal(signum))
           => setRet' = "InvalidArgument" /\ NothingInstalled]_vars
  /\ [][\A c \in Collectors, tid \in Tids \cup {NoSuchTid} :
         (state = "INIT_ERROR" /\ Unused(c) /\ TriggerAsync_Init(c, tid))
           => TriggerRefused(c) /\ NothingInstalled]_vars
  /\ [][\A m \in Signums :
         (m # g_stack_trace_signum /\ Free(m) /\ SetStackTraceSignal(m))
           => /\ setRet' = "OK" /\ state' = "INITIALIZED"
              /\ g_stack_trace_signum' = m
              /\ disp'[m] = "HandleStackTraceSignal"]_vars
  /\ [][\A signum \in Signums :
         (state = "INITIALIZED" /\ signum = g_stack_trace_signum
            /\ SetStackTraceSignal(signum))
           => setRet' = "OK" /\ NothingInstalled]_vars
  /\ [][\A c \in Collectors, tid \in Tids \cup {NoSuchTid} :
         (state = "INITIALIZED" /\ Unused(c) /\ TriggerAsync_Init(c, tid))
           => pc'[c] = "t_once" /\ NothingInstalled]_vars

\* Installation was refused for the selected number, the conflicting
\* handler has been removed since, and the call made last still failed; a
\* TriggerAsync has returned NotSupported.
C21_Witness ==
  /\ state = "INIT_ERROR" /\ refused = g_stack_trace_signum
  /\ Free(g_stack_trace_signum) /\ sticky
  /\ \E c \in Collectors : status[c] = "NotSupported"

\* The entries of the running snapshot that the await loop has been through.
Checked == IF snap.pc = "await" THEN 1..(snap.i - 1)
           ELSE IF snap.pc = "sort" THEN 1..Len(snap.tids) ELSE {}

\* The await loop stands at the CHECK of line 781 for entry k: the entry's
\* status after AndThen is known and is not OK.
AtCheck(k) ==
  /\ snap.pc = "await" /\ snap.i = k /\ pc[k] = "ready"
  /\ snap.infos_[k].status = "OK" => via[k] = "await"
  /\ AndThen(snap.infos_[k].status, status[k]) # "OK"

\* C22: the CHECK of line 781 never fails.  An entry whose status is not OK
\* has an empty stack when the CHECK looks at it, for the rest of the
\* call, and in the snapshot returned, where no SignalData of the call
\* that was given up or never sent has been written through.
C22_FailedEntryEmpty ==
  /\ aborted # "CHECK(!infos_[i].stack.HasCollected())"
  /\ \A k \in 1..Len(snap.tids) : AtCheck(k) => ~HasCollected(stk[k])
  /\ \A k \in Checked : snap.infos_[k].status # "OK" => ~HasCollected(stk[k])
  /\ snap.pc = "done" =>
       \A k \in Failed(snap.infos_) :
         /\ snap.infos_[k].stack = EmptyStack
         /\ \A b \in BlocksFor(snap.infos_[k]) : ~blk[b].wrote

\* A snapshot has returned with an entry that timed out; the signal came
\* to the thread after that and its handler gave up; the entry is empty.
C22_Witness ==
  /\ snap.pc = "done" /\ snap.st = "OK"
  /\ \E k \in DOMAIN snap.infos_ :
       /\ snap.infos_[k].status = "TimedOut" /\ snap.infos_[k].stack = EmptyStack
       /\ \E b \in BlocksFor(snap.infos_[k]) : blk[b].cas = "lost"
  /\ \E k \in DOMAIN snap.infos_ : snap.infos_[k].status = "OK"

\* The SignalData blocks allocated by the current call of SnapshotAllStacks.
ThisCall == (snap.first + 1)..nalloc

\* C25: in SnapshotAllStacks no AwaitCollection starts before every
\* TriggerAsync has returned, and only for a collector whose TriggerAsync
\* sent its signal, so the CHECK on sig_data_ never fails.  When the entries
\* are sorted and after the return no collector holds a block, every block
\* of the call that was sent has been exchanged (given up to a late
\* handler, or taken back after its handler finished and then deleted),
\* and no handler can write a StackTrace: none is collecting and no block
\* holds a thread id for a CAS to win.
C25_TriggersThenAwaits ==
  /\ aborted # "Must successfully call TriggerAsync() first"
  /\ snap.pc = "trigger" => \A c \in Collectors : via[c] # "await"
  /\ snap.pc = "await" =>
       \A k \in 1..Len(snap.tids) :
         status[k] # "none" /\ pc[k] \notin {"t_once", "t_prime", "t_send"}
  /\ \A c \in Collectors :
       (drv[c] = "snapshot" /\ via[c] = "await") =>
         /\ tid_[c] = snap.tids[c]
         /\ \E b \in ThisCall : blk[b].sent /\ blk[b].stack = c
  /\ snap.pc \in {"sort", "done"} =>
       /\ \A c \in Collectors : sig_data_[c] = nullptr
       /\ \A b \in ThisCall :
            blk[b].sent =>
              /\ blk[b].xchg \in {"tid", "started"}
              /\ blk[b].xchg = "started" => (blk[b].freed /\ blk[b].ready = 1)
       /\ \A b \in Allocated : blk[b].queued \notin Tids
       /\ \A t \in Tids : hpc[t] # "collect"

\* The entries of a snapshot of two threads are about to be sorted: one
\* block was taken back after its handler finished and deleted, the other
\* was given up with its signal still pending.
C25_Witness ==
  /\ snap.pc = "sort"
  /\ \E a, b \in ThisCall :
       /\ blk[a].xchg = "started" /\ blk[a].freed
       /\ blk[b].xchg = "tid" /\ \E t \in Tids : b \in pending[t]

\* The positions of a tracer inside AwaitCollection.
InAwait(c) ==
  /\ via[c] = "await"
  /\ pc[c] \in {"a_check", "a_loop", "a_futex", "a_sleep", "revoke",
                "r_check", "r_loop", "r_futex", "r_sleep", "r_delete"}

\* The collectors that hold block b.
HoldersOf(b) == {c \in Collectors : sig_data_[c] = b}

\* Collector c is constructed and in no call.
AtRest(c) == pc[c] = "ready"

\* C23: the CHECK_EQ of RevokeSigData (line 411) never fails: the exchange
\* reads the collector's tid or kDumpStarted from every block.  No block is
\* exchanged twice: a block is held by one collector at most, a collector
\* at rest holds only a block not exchanged yet, and a collector holds none
\* after AwaitCollection has returned, after a TriggerAsync that failed and
\* after it was destroyed; once a block is exchanged its record of what
\* the exchange found stays.
C23_RevokedOnce ==
  /\ [](aborted # "CHECK_EQ(old_val, SignalData::kDumpStarted)")
  /\ [](\A b \in Allocated :
         /\ blk[b].xchg \in {"none", "tid", "started"}
         /\ Cardinality(HoldersOf(b)) <= 1
         /\ \A c \in HoldersOf(b) :
              /\ blk[b].sent /\ ~blk[b].freed /\ tid_[c] = blk[b].tid
              /\ AtRest(c) => blk[b].xchg = "none")
  /\ [](\A c \in Collectors :
         /\ (AtRest(c) /\ status[c] \in {"NotFound", "NotSupported"})
              => sig_data_[c] = nullptr
         /\ pc[c] = "destroyed" => sig_data_[c] = nullptr)
  /\ [][\A b \in Allocated :
         blk[b].xchg # "none" => blk'[b].xchg = blk[b].xchg]_vars
  /\ [][\A c \in Collectors :
         (InAwait(c) /\ AtRest(c)') => sig_data_'[c] = nullptr]_vars
  /\ [][\A c, d \in Collectors :
         Call_Move(c, d) => sig_data_'[c] = nullptr /\ tid_'[c] = 0]_vars

\* The only block allocated was triggered by collector 1, moved to
\* collector 2 and exchanged once, by the destructor of collector 2; the
\* moved-from collector 1 has been destroyed too.
C23_Witness ==
  /\ nalloc = 1 /\ blk[1].stack = 1 /\ blk[1].sent /\ blk[1].xchg # "none"
  /\ pc[1] = "destroyed" /\ pc[2] = "destroyed"
  /\ via[1] = "none" /\ via[2] = "dtor"
  /\ aborted = "no"

\* Collector c holds a block whose target is the thread c runs on.
SelfTargeted(c) == sig_data_[c] # nullptr /\ tid_[c] = Owner(c)

C6_AwaitTerminates ==
  /\ [](\A c \in Collectors : InFinalWait(c) => blk[sig_data_[c]].cas = "won")
  /\ \A c \in Collectors : InAwait(c) ~> (pc[c] = "ready" /\ status[c] \in {"OK", "TimedOut"})

\* The flag was set after the waiter's check and before its futex wait, in the
\* wait that has no deadline.
C6_Witness ==
  \E c \in Collectors :
    via[c] = "await" /\ pc[c] = "r_futex" /\ blk[sig_data_[c]].ready = 1

====
